---------------------------- MODULE Spec2Model ----------------------------
(***************************************************************************)
(* State-machine model of the log parsers and of the RMS correlation of    *)
(* astro-session-viewer (src/parsers.py, src/main_window.py).              *)
(*                                                                         *)
(* Conventions.                                                            *)
(*  - A Python Optional[T] is a sequence: <<>> is None, <<v>> holds v.      *)
(*  - A datetime is an integer number of seconds; session.start_time       *)
(*    .timestamp() + frame.time is integer addition.                       *)
(*  - A log line is a record of what the regular expressions of the scan   *)
(*    extract from it (which markers it contains, whether each pattern     *)
(*    matches, whether the captured text converts, and the values).        *)
(*  - sqrt(mean(square(v))) * scale is kept exactly, as the reduced        *)
(*    fraction of its square.                                              *)
(***************************************************************************)
EXTENDS Integers, Sequences, FiniteSets, TLC

---------------------------------------------------------------------------
(* Bounds of the model *)

\* lines one NINAParser instance reads, over all its parse calls
MaxLines == 3
\* lines one PHD2Parser instance reads, over all its parse calls
MaxGuideLines == 4
\* parse calls on one parser instance
MaxParses == 2
\* guiding frames of one guiding log handed to the aggregation
MaxFrames == 3
\* files in one log folder
MaxFiles == 2

\* the timestamps the lines given to the parsers carry
Times == {1, 2}
\* the latest of them
LastTime == CHOOSE t \in Times : \A u \in Times : u <= t

---------------------------------------------------------------------------
(* Python values *)

None == <<>>
Some(v) == <<v>>
IsNone(o) == o = <<>>
IsSome(o) == o # <<>>
Val(o) == o[1]

\* truth value of an Optional number: None and 0 are false
TruthyNum(o) == IsSome(o) /\ Val(o) # 0

\* list.append
Append1(s, e) == s \o <<e>>

SeqToSet(s) == {s[i] : i \in 1..Len(s)}

---------------------------------------------------------------------------
(* PHD2Parser: the guiding-log scan *)

\* GuidingFrame: the fields the aggregation reads (frame, time, ra_raw, dec_raw)
GuidingFrame(n, t, ra, dec) ==
    [frame |-> n, time |-> t, ra_raw |-> ra, dec_raw |-> dec]

\* GuidingSession(start_time=...) with the dataclass defaults
GuidingSession(start) ==
    [start_time |-> start, end_time |-> None, equipment_profile |-> "",
     pixel_scale |-> 0, focal_length |-> 0, pointing |-> "", frames |-> <<>>]

\* PHD2Parser.__init__
Phd2Parser_init == [sessions |-> <<>>, log_date |-> None]

\* A guiding-log line: kind is the branch of the elif chain its prefix selects,
\* match whether the branch's regular expression matches, valid whether the
\* captured text converts (strptime, float, int), and the captured values.
Phd2Line(kind, match, valid, t, scale, frame) ==
    [kind |-> kind, match |-> match, valid |-> valid, t |-> t,
     scale |-> scale, frame |-> frame]

NoFrame == GuidingFrame(0, 0, 0, 0)

\* frames a frame line can carry: elapsed second, raw RA and Dec error
FrameSet ==
    {GuidingFrame(1, 0, 1, 0), GuidingFrame(2, 1, -2, 1)}

\* pixel scales a header can declare (0 when the line reads 0.00)
PixelScales == {0, 2}

Phd2TimedKinds == {"LogEnabled", "Begins", "Ends"}

Phd2LinesOf(vocab) ==
    CASE vocab = "sessions" ->
           {Phd2Line(k, TRUE, TRUE, t, 0, NoFrame) : k \in {"Begins", "Ends"}, t \in Times}
           \cup {Phd2Line("Frame", TRUE, TRUE, 0, 0, f) : f \in FrameSet}
           \cup {Phd2Line("Frame", TRUE, FALSE, 0, 0, NoFrame),
                 Phd2Line("Frame", FALSE, TRUE, 0, 0, NoFrame)}
           \cup {Phd2Line("Ends", FALSE, TRUE, 0, 0, NoFrame)}
      [] vocab = "header" ->
           {Phd2Line("LogEnabled", TRUE, TRUE, t, 0, NoFrame) : t \in Times}
           \cup {Phd2Line("PixelScale", TRUE, TRUE, 0, s, NoFrame) : s \in PixelScales}
           \cup {Phd2Line("Begins", TRUE, TRUE, 1, 0, NoFrame),
                 Phd2Line("Ends", TRUE, TRUE, LastTime, 0, NoFrame),
                 Phd2Line("Profile", TRUE, TRUE, 0, 0, NoFrame),
                 Phd2Line("Pointing", TRUE, TRUE, 0, 0, NoFrame),
                 Phd2Line("Other", FALSE, TRUE, 0, 0, NoFrame)}
      [] vocab = "malformed" ->
           {Phd2Line(k, TRUE, FALSE, 0, 0, NoFrame) : k \in Phd2TimedKinds}
           \cup {Phd2Line(k, FALSE, TRUE, 0, 0, NoFrame) : k \in Phd2TimedKinds}
           \cup {Phd2Line("Begins", TRUE, TRUE, 1, 0, NoFrame),
                 Phd2Line("Ends", TRUE, TRUE, LastTime, 0, NoFrame),
                 Phd2Line("PixelScale", TRUE, FALSE, 0, 0, NoFrame)}

Phd2Vocabs == {"sessions", "header", "malformed"}

\* variant: the number of fields is not tested
parse_frame_anyLength(line) == IF line.valid THEN Some(line.frame) ELSE None

\* _parse_frame: None for fewer than 18 fields (match is false on a frame
\* line) or a field that does not convert (valid is false)
parse_frame(line) ==
    IF line.match /\ line.valid THEN Some(line.frame) ELSE None


\* whether the line makes the scan raise: strptime, float or int on text the
\* pattern captured but that does not convert
Phd2Raises(cur, line) ==
    /\ line.match
    /\ ~line.valid
    /\ \/ line.kind \in {"LogEnabled", "Begins"}
       \/ line.kind \in {"PixelScale", "Ends"} /\ IsSome(cur)

\* variant: a begin marker keeps the frames of the session that was open
Phd2CurAfter_beginKeepsFrames(cur, line) ==
    CASE line.kind = "LogEnabled" -> cur
      [] line.kind = "Begins" ->
           IF line.match
           THEN Some([GuidingSession(line.t) EXCEPT
                        !.frames = IF IsSome(cur) THEN Val(cur).frames ELSE <<>>])
           ELSE cur
      [] line.kind = "Profile" /\ IsSome(cur) ->
           IF line.match
           THEN Some([Val(cur) EXCEPT !.equipment_profile = "profile"])
           ELSE cur
      [] line.kind = "PixelScale" /\ IsSome(cur) ->
           IF line.match
           THEN Some([Val(cur) EXCEPT !.pixel_scale = line.scale,
                                      !.focal_length = 1])
           ELSE cur
      [] line.kind = "Pointing" /\ IsSome(cur) ->
           IF line.match
           THEN Some([Val(cur) EXCEPT !.pointing = "pointing"])
           ELSE cur
      [] line.kind = "Frame" /\ IsSome(cur) ->
           IF IsSome(parse_frame(line))
           THEN Some([Val(cur) EXCEPT
                        !.frames = Append1(@, Val(parse_frame(line)))])
           ELSE cur
      [] line.kind = "Ends" ->
           IF line.match /\ IsSome(cur) THEN None ELSE cur
      [] OTHER -> cur

\* the current_session local after one line of the loop of parse
Phd2CurAfter(cur, line) ==
    CASE line.kind = "LogEnabled" -> cur
      [] line.kind = "Begins" ->
           IF line.match THEN Some(GuidingSession(line.t)) ELSE cur
      [] line.kind = "Profile" /\ IsSome(cur) ->
           IF line.match
           THEN Some([Val(cur) EXCEPT !.equipment_profile = "profile"])
           ELSE cur
      [] line.kind = "PixelScale" /\ IsSome(cur) ->
           IF line.match
           THEN Some([Val(cur) EXCEPT !.pixel_scale = line.scale,
                                      !.focal_length = 1])
           ELSE cur
      [] line.kind = "Pointing" /\ IsSome(cur) ->
           IF line.match
           THEN Some([Val(cur) EXCEPT !.pointing = "pointing"])
           ELSE cur
      [] line.kind = "Frame" /\ IsSome(cur) ->
           IF IsSome(parse_frame(line))
           THEN Some([Val(cur) EXCEPT
                        !.frames = Append1(@, Val(parse_frame(line)))])
           ELSE cur
      [] line.kind = "Ends" ->
           IF line.match /\ IsSome(cur) THEN None ELSE cur
      [] OTHER -> cur

\* variant: a begin marker emits the session that was still open
Phd2ObjAfter_flushOnBegin(p, cur, line) ==
    CASE line.kind = "LogEnabled" /\ line.match ->
           [p EXCEPT !.log_date = Some(line.t)]
      [] line.kind = "Begins" /\ line.match /\ IsSome(cur) ->
           [p EXCEPT !.sessions = Append1(@, Val(cur))]
      [] line.kind = "Ends" /\ line.match /\ IsSome(cur) ->
           [p EXCEPT !.sessions =
               Append1(@, [Val(cur) EXCEPT !.end_time = Some(line.t)])]
      [] OTHER -> p

\* variant: an end marker emits a session also when none is open
Phd2ObjAfter_endWithoutOpen(p, cur, line) ==
    CASE line.kind = "LogEnabled" /\ line.match ->
           [p EXCEPT !.log_date = Some(line.t)]
      [] line.kind = "Ends" /\ line.match /\ IsSome(cur) ->
           [p EXCEPT !.sessions =
               Append1(@, [Val(cur) EXCEPT !.end_time = Some(line.t)])]
      [] line.kind = "Ends" /\ line.match /\ line.valid ->
           [p EXCEPT !.sessions =
               Append1(@, [GuidingSession(line.t) EXCEPT !.end_time = Some(line.t)])]
      [] OTHER -> p

\* the parser object after one line of the loop of parse
Phd2ObjAfter(p, cur, line) ==
    CASE line.kind = "LogEnabled" /\ line.match ->
           [p EXCEPT !.log_date = Some(line.t)]
      [] line.kind = "Ends" /\ line.match /\ IsSome(cur) ->
           [p EXCEPT !.sessions =
               Append1(@, [Val(cur) EXCEPT !.end_time = Some(line.t)])]
      [] OTHER -> p

---------------------------------------------------------------------------
(* NINAParser: the imaging-log scan *)

\* NINAParser.__init__
NinaParser_init ==
    [autofocus_runs |-> <<>>, exposures |-> <<>>, filter_changes |-> <<>>,
     meridian_flips |-> <<>>, rms_alerts |-> <<>>, dither_events |-> <<>>,
     target_name |-> "", session_start |-> None, session_end |-> None,
     current_filter |-> "", current_pier_side |-> "",
     pending_af |-> None, pending_exposure |-> None, pending_dither |-> None,
     last_hfr |-> None, last_stars |-> None]

\* the assignments parse makes before it opens the file
NinaParseReset(p) ==
    [p EXCEPT !.autofocus_runs = <<>>, !.exposures = <<>>,
              !.filter_changes = <<>>, !.meridian_flips = <<>>,
              !.rms_alerts = <<>>]

\* AutofocusRun(timestamp=, filter_name=) with the dataclass defaults
AutofocusRun(ts, filter) ==
    [timestamp |-> ts, trigger |-> "", filter_name |-> filter,
     initial_position |-> 0, final_position |-> 0, final_hfr |-> 0,
     temperature |-> None]

\* Exposure(...) with the dataclass defaults
Exposure(ts, time, filter, gain, offset, binning) ==
    [timestamp |-> ts, exposure_time |-> time, filter_name |-> filter,
     gain |-> gain, offset |-> offset, binning |-> binning,
     image_type |-> "LIGHT", hfr |-> None, stars_detected |-> None,
     saved_path |-> None, ra_rms |-> None, dec_rms |-> None,
     total_rms |-> None, guiding_frames |-> 0]

FilterChange(ts, name, pos) ==
    [timestamp |-> ts, filter_name |-> name, position |-> pos]

MeridianFlip(ts, from, to) ==
    [timestamp |-> ts, from_pier_side |-> from, to_pier_side |-> to]

RMSAlert(ts, total, threshold) ==
    [timestamp |-> ts, total_rms |-> total, ra_rms |-> 0, dec_rms |-> 0,
     threshold |-> threshold]

DitherEvent(start) == [start_time |-> start, end_time |-> None]

\* What a marker's pattern captures: match is whether re.search matches, valid
\* whether float() accepts the captured text, s and n the captured text/number.
Cap(match, valid, s, n, m) ==
    [match |-> match, valid |-> valid, s |-> s, n |-> n, m |-> m]

\* The head of an imaging-log line. form is "millis" when the line begins
\* with YYYY-MM-DDTHH:MM:SS.f (one or more fraction digits), "seconds" when it
\* begins with YYYY-MM-DDTHH:MM:SS and no fraction, "none" otherwise; t is the
\* instant the digits write, valid whether they are a date and a time.
Stamp(form, t, valid) == [form |-> form, t |-> t, valid |-> valid]

\* what _parse_timestamp returns for text the pattern accepts but strptime
\* rejects twice (month 13): the ValueError leaves _parse_line
BadTimestamp == Some(-1)

\* variant: strptime on the head of every line, without the pattern
parse_timestamp_noPattern(line) ==
    IF line.stamp.valid THEN Some(line.stamp.t) ELSE BadTimestamp

\* NINAParser._parse_timestamp: the pattern requires the fraction; the digits
\* it accepts go to strptime with %f and, when that raises, without the
\* fraction to strptime again, outside the try
parse_timestamp(line) ==
    IF line.stamp.form # "millis" THEN None
    ELSE IF line.stamp.valid THEN Some(line.stamp.t)
    ELSE BadTimestamp

\* An imaging-log line with no marker, beginning with stamp. Each other field
\* is None when the line lacks the marker substrings of that detector, and
\* holds what the detector's pattern captures when it has them.
NinaLine(stamp) ==
    [stamp |-> stamp, target |-> None, af_start |-> None, af_initial |-> None,
     af_trigger |-> None, af_broadcast |-> None, af_completed |-> None,
     star_detection |-> None, filter_move |-> None, exposure_start |-> None,
     save_light |-> None, pier_side |-> None, rms_alert |-> None,
     dither_start |-> None, dither_finish |-> None]

\* session_start / session_end bookkeeping at the head of _parse_line
NinaBounds(p, ts) ==
    [p EXCEPT !.session_start = IF IsNone(@) THEN Some(ts) ELSE @,
              !.session_end = Some(ts)]

\* Target name from DeepSkyObjectContainer
NinaTarget(p, line) ==
    IF IsSome(line.target) /\ Val(line.target).match
    THEN [p EXCEPT !.target_name = Val(line.target).s]
    ELSE p

\* variant: a new start emits the run that was still pending
NinaAfStart_flushPending(p, line, ts) ==
    IF IsSome(line.af_start)
    THEN [p EXCEPT !.autofocus_runs =
                      IF IsSome(p.pending_af)
                      THEN Append1(@, Val(p.pending_af)) ELSE @,
                   !.pending_af = Some(AutofocusRun(ts, p.current_filter))]
    ELSE p

\* Autofocus start
NinaAfStart(p, line, ts) ==
    IF IsSome(line.af_start)
    THEN [p EXCEPT !.pending_af = Some(AutofocusRun(ts, p.current_filter))]
    ELSE p

\* Autofocus initial position
NinaAfInitial(p, line) ==
    IF IsSome(line.af_initial) /\ IsSome(p.pending_af)
       /\ Val(line.af_initial).match
    THEN [p EXCEPT !.pending_af =
            Some([Val(@) EXCEPT !.initial_position = Val(line.af_initial).n])]
    ELSE p

\* Autofocus trigger reason
NinaAfTrigger(p, line) ==
    IF IsSome(line.af_trigger) /\ Val(line.af_trigger).match
       /\ IsSome(p.pending_af)
    THEN [p EXCEPT !.pending_af =
            Some([Val(@) EXCEPT !.trigger = Val(line.af_trigger).s])]
    ELSE p

\* Autofocus completion broadcast (temperature)
NinaAfBroadcast(p, line) ==
    IF IsSome(line.af_broadcast) /\ Val(line.af_broadcast).match
       /\ IsSome(p.pending_af)
    THEN [p EXCEPT !.pending_af =
            Some([Val(@) EXCEPT !.temperature = Some(Val(line.af_broadcast).n)])]
    ELSE p

\* variant: the star detection of the completion line itself is used
NinaAfCompleted_readsOwnLine(p, line) ==
    IF IsSome(line.af_completed) /\ IsSome(p.pending_af)
       /\ Val(line.af_completed).match
    THEN LET last_hfr == IF IsSome(line.star_detection)
                            /\ Val(line.star_detection).match
                         THEN Some(Val(line.star_detection).n) ELSE p.last_hfr
             run == [Val(p.pending_af) EXCEPT
                       !.final_position = Val(line.af_completed).n,
                       !.final_hfr = IF TruthyNum(last_hfr)
                                     THEN Val(last_hfr) ELSE @]
         IN [p EXCEPT !.autofocus_runs = Append1(@, run),
                      !.pending_af = None]
    ELSE p

\* "AutoFocus completed"
NinaAfCompleted(p, line) ==
    IF IsSome(line.af_completed) /\ IsSome(p.pending_af)
       /\ Val(line.af_completed).match
    THEN LET run == [Val(p.pending_af) EXCEPT
                       !.final_position = Val(line.af_completed).n,
                       !.final_hfr = IF TruthyNum(p.last_hfr)
                                     THEN Val(p.last_hfr) ELSE @]
         IN [p EXCEPT !.autofocus_runs = Append1(@, run),
                      !.pending_af = None]
    ELSE p

\* HFR detection (Hocus Focus)
NinaStarDetection(p, line) ==
    IF IsSome(line.star_detection) /\ Val(line.star_detection).match
    THEN [p EXCEPT !.last_hfr = Some(Val(line.star_detection).n),
                   !.last_stars = Some(Val(line.star_detection).m)]
    ELSE p

\* variant: the filter change is put at the head of the list
NinaFilterMove_prepend(p, line, ts) ==
    IF IsSome(line.filter_move) /\ Val(line.filter_move).match
    THEN [p EXCEPT !.filter_changes =
                      <<FilterChange(ts, Val(line.filter_move).s,
                                     Val(line.filter_move).n)>> \o @,
                   !.current_filter = Val(line.filter_move).s]
    ELSE p

\* Filter change
NinaFilterMove(p, line, ts) ==
    IF IsSome(line.filter_move) /\ Val(line.filter_move).match
    THEN [p EXCEPT !.filter_changes =
                      Append1(@, FilterChange(ts, Val(line.filter_move).s,
                                              Val(line.filter_move).n)),
                   !.current_filter = Val(line.filter_move).s]
    ELSE p

\* variant: a new start emits the exposure that was still pending
NinaExposureStart_flushPending(p, line, ts) ==
    IF IsSome(line.exposure_start) /\ Val(line.exposure_start).match
    THEN LET c == Val(line.exposure_start)
             filter_name == IF c.s # "" THEN c.s ELSE p.current_filter
         IN [p EXCEPT !.current_filter =
                         IF filter_name # "" THEN filter_name ELSE @,
                      !.exposures =
                         IF IsSome(p.pending_exposure)
                         THEN Append1(@, Val(p.pending_exposure)) ELSE @,
                      !.pending_exposure =
                         Some(Exposure(ts, c.n, filter_name, c.m, 0, "1x1"))]
    ELSE p

\* variant: a filter named by an exposure line is not remembered
NinaExposureStart_filterNotKept(p, line, ts) ==
    IF IsSome(line.exposure_start) /\ Val(line.exposure_start).match
    THEN LET c == Val(line.exposure_start)
             filter_name == IF c.s # "" THEN c.s ELSE p.current_filter
         IN [p EXCEPT !.pending_exposure =
                         Some(Exposure(ts, c.n, filter_name, c.m, 0, "1x1"))]
    ELSE p

\* Exposure start
NinaExposureStart(p, line, ts) ==
    IF IsSome(line.exposure_start) /\ Val(line.exposure_start).match
    THEN LET c == Val(line.exposure_start)
             filter_name == IF c.s # "" THEN c.s ELSE p.current_filter
         IN [p EXCEPT !.current_filter =
                         IF filter_name # "" THEN filter_name ELSE @,
                      !.pending_exposure =
                         Some(Exposure(ts, c.n, filter_name, c.m, 0, "1x1"))]
    ELSE p

\* Saved LIGHT image
NinaSaveLight(p, line) ==
    IF IsSome(line.save_light) /\ Val(line.save_light).match
       /\ IsSome(p.pending_exposure)
    THEN LET e == [Val(p.pending_exposure) EXCEPT
                     !.saved_path = Some(Val(line.save_light).s),
                     !.hfr = IF TruthyNum(p.last_hfr) THEN p.last_hfr ELSE @,
                     !.stars_detected =
                        IF TruthyNum(p.last_stars) THEN p.last_stars ELSE @]
         IN [p EXCEPT !.exposures = Append1(@, e),
                      !.pending_exposure = None]
    ELSE p

\* variant: the flip test without the check for a previously known side
NinaPierSide_noFirstCheck(p, line, ts) ==
    IF IsSome(line.pier_side) /\ Val(line.pier_side).match
    THEN LET new_pier_side == Val(line.pier_side).s
         IN [p EXCEPT !.meridian_flips =
                         IF p.current_pier_side # new_pier_side
                         THEN Append1(@, MeridianFlip(ts, p.current_pier_side,
                                                      new_pier_side))
                         ELSE @,
                      !.current_pier_side = new_pier_side]
    ELSE p

\* variant: the side is remembered only from the first mention
NinaPierSide_sideNotUpdated(p, line, ts) ==
    IF IsSome(line.pier_side) /\ Val(line.pier_side).match
    THEN LET new_pier_side == Val(line.pier_side).s
         IN [p EXCEPT !.meridian_flips =
                         IF p.current_pier_side # ""
                            /\ p.current_pier_side # new_pier_side
                         THEN Append1(@, MeridianFlip(ts, p.current_pier_side,
                                                      new_pier_side))
                         ELSE @,
                      !.current_pier_side =
                         IF @ = "" THEN new_pier_side ELSE @]
    ELSE p

\* Pier side detection
NinaPierSide(p, line, ts) ==
    IF IsSome(line.pier_side) /\ Val(line.pier_side).match
    THEN LET new_pier_side == Val(line.pier_side).s
         IN [p EXCEPT !.meridian_flips =
                         IF p.current_pier_side # ""
                            /\ p.current_pier_side # new_pier_side
                         THEN Append1(@, MeridianFlip(ts, p.current_pier_side,
                                                      new_pier_side))
                         ELSE @,
                      !.current_pier_side = new_pier_side]
    ELSE p

\* RMS threshold alert
NinaRmsAlert(p, line, ts) ==
    IF IsSome(line.rms_alert) /\ Val(line.rms_alert).match
    THEN [p EXCEPT !.rms_alerts =
            Append1(@, RMSAlert(ts, Val(line.rms_alert).n, Val(line.rms_alert).m))]
    ELSE p

\* variant: a new start emits the dither that was still pending
NinaDitherStart_flushPending(p, line, ts) ==
    IF IsSome(line.dither_start)
    THEN [p EXCEPT !.dither_events =
                      IF IsSome(p.pending_dither)
                      THEN Append1(@, Val(p.pending_dither)) ELSE @,
                   !.pending_dither = Some(DitherEvent(ts))]
    ELSE p

\* Dither start
NinaDitherStart(p, line, ts) ==
    IF IsSome(line.dither_start)
    THEN [p EXCEPT !.pending_dither = Some(DitherEvent(ts))]
    ELSE p

\* Dither end
NinaDitherFinish(p, line, ts) ==
    IF IsSome(line.dither_finish) /\ IsSome(p.pending_dither)
    THEN [p EXCEPT !.dither_events =
                      Append1(@, [Val(p.pending_dither) EXCEPT
                                    !.end_time = Some(ts)]),
                   !.pending_dither = None]
    ELSE p

\* the k-th detector of _parse_line, in the order of the code
NinaDetector(k, p, line, ts) ==
    CASE k = 1 -> NinaTarget(p, line)
      [] k = 2 -> NinaAfStart(p, line, ts)
      [] k = 3 -> NinaAfInitial(p, line)
      [] k = 4 -> NinaAfTrigger(p, line)
      [] k = 5 -> NinaAfBroadcast(p, line)
      [] k = 6 -> NinaAfCompleted(p, line)
      [] k = 7 -> NinaStarDetection(p, line)
      [] k = 8 -> NinaFilterMove(p, line, ts)
      [] k = 9 -> NinaExposureStart(p, line, ts)
      [] k = 10 -> NinaSaveLight(p, line)
      [] k = 11 -> NinaPierSide(p, line, ts)
      [] k = 12 -> NinaRmsAlert(p, line, ts)
      [] k = 13 -> NinaDitherStart(p, line, ts)
      [] k = 14 -> NinaDitherFinish(p, line, ts)

\* whether the k-th detector raises ValueError: float() on a captured
\* digit-and-dot run that is no number
NinaDetectorRaises(k, p, line) ==
    LET bad(c) == IsSome(c) /\ Val(c).match /\ ~Val(c).valid
    IN CASE k = 5 -> bad(line.af_broadcast) /\ IsSome(p.pending_af)
         [] k = 7 -> bad(line.star_detection)
         [] k = 9 -> bad(line.exposure_start)
         [] k = 12 -> bad(line.rms_alert)
         [] OTHER -> FALSE

\* detectors k..14 from parser state p: the state they leave and whether one
\* of them raised (the detectors after it do not run)
RECURSIVE NinaScanFrom(_, _, _, _)
NinaScanFrom(k, p, line, ts) ==
    IF k > 14 THEN [p |-> p, raised |-> FALSE]
    ELSE IF NinaDetectorRaises(k, p, line) THEN [p |-> p, raised |-> TRUE]
    ELSE NinaScanFrom(k + 1, NinaDetector(k, p, line, ts), line, ts)

\* _parse_line: the parser state it leaves and whether it raised
parse_line(p, line) ==
    LET timestamp == parse_timestamp(line)
    IN IF IsNone(timestamp) THEN [p |-> p, raised |-> FALSE]
       ELSE IF timestamp = BadTimestamp THEN [p |-> p, raised |-> TRUE]
       ELSE NinaScanFrom(1, NinaBounds(p, Val(timestamp)), line, Val(timestamp))

\* imaging-log lines: one marker (or two on one line) after the head stamp
NinaMarked(stamp, vocab) ==
    LET l == NinaLine(stamp)
        ok(str, n, m) == Some(Cap(TRUE, TRUE, str, n, m))
        nomatch == Some(Cap(FALSE, TRUE, "", 0, 0))
    IN CASE vocab = "dither" ->
              {l,
               [l EXCEPT !.dither_start = Some(TRUE)],
               [l EXCEPT !.dither_finish = Some(TRUE)],
               [l EXCEPT !.dither_start = Some(TRUE), !.dither_finish = Some(TRUE)]}
         [] vocab = "exposure" ->
              {[l EXCEPT !.exposure_start = ok("L", 1, 100)],
               [l EXCEPT !.exposure_start = ok("", 2, 100)],
               [l EXCEPT !.exposure_start = nomatch],
               [l EXCEPT !.save_light = ok("a.fits", 0, 0)],
               [l EXCEPT !.save_light = nomatch],
               [l EXCEPT !.exposure_start = ok("L", 1, 100),
                         !.save_light = ok("a.fits", 0, 0)],
               [l EXCEPT !.star_detection = ok("", 2, 5)],
               [l EXCEPT !.filter_move = ok("R", 1, 0)]}
         [] vocab = "pier" ->
              {l,
               [l EXCEPT !.pier_side = ok("East", 0, 0)],
               [l EXCEPT !.pier_side = ok("West", 0, 0)],
               [l EXCEPT !.pier_side = nomatch]}
         [] vocab = "autofocus" ->
              {[l EXCEPT !.af_start = Some(TRUE)],
               [l EXCEPT !.af_initial = ok("", 500, 0)],
               [l EXCEPT !.af_trigger = ok("AutofocusAfterFilterChange", 0, 0)],
               [l EXCEPT !.af_broadcast = ok("", 4, 0)],
               [l EXCEPT !.af_completed = ok("", 510, 0)],
               [l EXCEPT !.star_detection = ok("", 2, 5)],
               [l EXCEPT !.filter_move = ok("R", 1, 0)]}
         [] vocab = "alerts" ->
              {[l EXCEPT !.target = ok("M31", 0, 0)],
               [l EXCEPT !.target = nomatch],
               [l EXCEPT !.rms_alert = ok("", 3, 2)],
               [l EXCEPT !.rms_alert = Some(Cap(TRUE, FALSE, "", 0, 0))]}
         [] vocab = "malformed" ->
              {[l EXCEPT !.af_start = Some(TRUE)],
               [l EXCEPT !.af_broadcast = Some(Cap(TRUE, FALSE, "", 0, 0))],
               [l EXCEPT !.star_detection = Some(Cap(TRUE, FALSE, "", 0, 0))],
               [l EXCEPT !.exposure_start = Some(Cap(TRUE, FALSE, "", 0, 0))],
               [l EXCEPT !.exposure_start = ok("L", 1, 100)],
               [l EXCEPT !.save_light = ok("a.fits", 0, 0)]}
         [] vocab = "lists" ->
              {[l EXCEPT !.exposure_start = ok("L", 1, 100),
                         !.save_light = ok("a.fits", 0, 0)],
               [l EXCEPT !.dither_start = Some(TRUE), !.dither_finish = Some(TRUE)],
               [l EXCEPT !.af_start = Some(TRUE), !.af_completed = ok("", 510, 0)],
               [l EXCEPT !.filter_move = ok("R", 1, 0)],
               [l EXCEPT !.pier_side = ok("East", 0, 0)],
               [l EXCEPT !.pier_side = ok("West", 0, 0)],
               [l EXCEPT !.rms_alert = ok("", 3, 2)]}
         [] vocab = "session" ->
              {[l EXCEPT !.exposure_start = ok("L", 1, 100)],
               [l EXCEPT !.save_light = ok("a.fits", 0, 0)],
               [l EXCEPT !.star_detection = ok("", 2, 5)]}
         [] vocab = "stamps" ->
              {l,
               [l EXCEPT !.dither_start = Some(TRUE)],
               [l EXCEPT !.dither_finish = Some(TRUE)],
               [l EXCEPT !.target = ok("M31", 0, 0)],
               [l EXCEPT !.filter_move = ok("R", 1, 0)]}
         [] vocab = "focus" ->
              {[l EXCEPT !.af_start = Some(TRUE)],
               [l EXCEPT !.af_initial = ok("", 500, 0)],
               [l EXCEPT !.af_trigger = ok("AutofocusAfterFilterChange", 0, 0)],
               [l EXCEPT !.af_broadcast = ok("", 4, 0)],
               [l EXCEPT !.af_completed = ok("", 510, 0)],
               [l EXCEPT !.af_completed = nomatch],
               [l EXCEPT !.star_detection = ok("", 2, 5)],
               [l EXCEPT !.star_detection = ok("", 3, 7)],
               [l EXCEPT !.af_completed = ok("", 510, 0),
                         !.star_detection = ok("", 3, 7)],
               [l EXCEPT !.af_start = Some(TRUE),
                         !.af_completed = ok("", 520, 0)]}
         [] vocab = "rolling" ->
              {[l EXCEPT !.exposure_start = ok("L", 1, 100)],
               [l EXCEPT !.exposure_start = ok("", 2, 100)],
               [l EXCEPT !.filter_move = ok("R", 1, 0)],
               [l EXCEPT !.filter_move = ok("R", 1, 0),
                         !.exposure_start = ok("", 2, 100)],
               [l EXCEPT !.save_light = ok("a.fits", 0, 0)],
               [l EXCEPT !.exposure_start = ok("", 2, 100),
                         !.save_light = ok("a.fits", 0, 0)],
               [l EXCEPT !.star_detection = ok("", 2, 5)],
               [l EXCEPT !.star_detection = ok("", 0, 5)],
               [l EXCEPT !.star_detection = ok("", 3, 0)]}

NinaVocabs == {"dither", "exposure", "pier", "autofocus", "alerts", "malformed"}

\* the lines of an imaging log: marked lines at each timestamp, a line with
\* no timestamp, and a line whose timestamp is no date; in the vocabulary
\* "stamps" the marked lines begin with a millisecond-precision timestamp,
\* with a second-precision one, or with none; in the vocabularies "focus"
\* and "rolling" the lines that stamp a record (autofocus start, exposure
\* start, filter change) are at each timestamp and the others at the last
NinaLinesOf(vocab) ==
    IF vocab \in {"focus", "rolling"}
    THEN {line \in UNION {NinaMarked(Stamp("millis", ts, TRUE), vocab) : ts \in Times} :
             \/ line.stamp.t = LastTime
             \/ IsSome(line.af_start)
             \/ IsSome(line.exposure_start)
             \/ IsSome(line.filter_move)}
         \cup {NinaLine(Stamp("none", 0, FALSE))}
    ELSE IF vocab = "lists"
    THEN UNION {NinaMarked(Stamp("millis", ts, TRUE), vocab) : ts \in Times}
         \cup {NinaLine(Stamp("none", 0, FALSE))}
    ELSE IF vocab = "stamps"
    THEN UNION {NinaMarked(stamp, vocab) :
                   stamp \in {Stamp("millis", ts, TRUE) : ts \in Times}
                             \cup {Stamp("seconds", LastTime, TRUE),
                                   Stamp("none", 0, FALSE)}}
    ELSE
    UNION {NinaMarked(Stamp("millis", ts, TRUE), vocab) : ts \in Times}
    \cup {NinaLine(Stamp("none", 0, FALSE)), NinaLine(Stamp("millis", 0, FALSE))}

---------------------------------------------------------------------------
(* RMS arithmetic: a value sqrt(n/d) is kept as the reduced fraction <<n, d>> *)

RECURSIVE GCD(_, _)
GCD(a, b) == IF b = 0 THEN a ELSE GCD(b, a % b)

Frac(n, d) == LET g == GCD(n, d) IN <<n \div g, d \div g>>

RECURSIVE SumSquares(_)
SumSquares(vals) ==
    IF vals = <<>> THEN 0
    ELSE Head(vals) * Head(vals) + SumSquares(Tail(vals))

\* float(np.sqrt(np.mean(np.square(vals)))) of a non-empty list
RmsPx(vals) == Frac(SumSquares(vals), Len(vals))

\* rms_px * pixel_scale
Scaled(rms, pixel_scale) == Frac(rms[1] * pixel_scale * pixel_scale, rms[2])

\* variant: the total is the RA value alone
Quadrature_raOnly(ra, dec) == ra

\* float(np.sqrt(ra_rms**2 + dec_rms**2))
Quadrature(ra, dec) == Frac(ra[1] * dec[2] + dec[1] * ra[2], ra[2] * dec[2])

\* truth value of an Optional list: None and [] are false
TruthyList(o) == IsSome(o) /\ Val(o) # <<>>

\* (dither.end_time or dither.start_time)
DitherEnd(dither) ==
    IF IsSome(dither.end_time) THEN Val(dither.end_time) ELSE dither.start_time

---------------------------------------------------------------------------
(* PHD2Parser.get_rms_over_time *)

\* variant: the end of the widened interval is excluded
is_during_dither_openEnd(timestamp, dither_events, margin) ==
    \E k \in 1..Len(dither_events) :
        /\ dither_events[k].start_time - margin <= timestamp
        /\ timestamp < DitherEnd(dither_events[k]) + margin

\* PHD2Parser._is_during_dither
is_during_dither(timestamp, dither_events, margin) ==
    \E k \in 1..Len(dither_events) :
        /\ dither_events[k].start_time - margin <= timestamp
        /\ timestamp <= DitherEnd(dither_events[k]) + margin

\* one emitted tuple (bucket_start, ra_rms, dec_rms, total_rms); session and
\* members record, for the properties, which frames of which session the
\* bucket held
BucketTuple(session, si, bucket_start, current_bucket) ==
    LET pixel_scale == IF session.pixel_scale # 0 THEN session.pixel_scale ELSE 1
        ra_vals == [k \in 1..Len(current_bucket) |->
                       session.frames[current_bucket[k]].ra_raw]
        dec_vals == [k \in 1..Len(current_bucket) |->
                       session.frames[current_bucket[k]].dec_raw]
        ra_rms == Scaled(RmsPx(ra_vals), pixel_scale)
        dec_rms == Scaled(RmsPx(dec_vals), pixel_scale)
    IN [timestamp |-> bucket_start, ra_rms |-> ra_rms, dec_rms |-> dec_rms,
        total_rms |-> Quadrature(ra_rms, dec_rms),
        session |-> si, members |-> current_bucket]

\* the loop state before the first frame of a session
BucketStart(session, results) ==
    [bucket_start |-> session.start_time, current_bucket |-> <<>>,
     results |-> results]

\* variant: the next bucket starts one interval after the bucket before it
BucketFrame_alignedStart(st, session, si, j, interval_seconds, dither_events, margin) ==
    LET frame_dt == session.start_time + session.frames[j].time
    IN IF TruthyList(dither_events)
          /\ is_during_dither(frame_dt, Val(dither_events), margin)
       THEN st
       ELSE IF frame_dt - st.bucket_start >= interval_seconds
       THEN [bucket_start |-> st.bucket_start + interval_seconds,
             current_bucket |-> <<j>>,
             results |-> IF st.current_bucket # <<>>
                         THEN Append1(st.results,
                                 BucketTuple(session, si, st.bucket_start,
                                             st.current_bucket))
                         ELSE st.results]
       ELSE [st EXCEPT !.current_bucket = Append1(@, j)]

\* the body of the loop over session.frames, for frame j
BucketFrame(st, session, si, j, interval_seconds, dither_events, margin) ==
    LET frame_dt == session.start_time + session.frames[j].time
    IN IF TruthyList(dither_events)
          /\ is_during_dither(frame_dt, Val(dither_events), margin)
       THEN st
       ELSE IF frame_dt - st.bucket_start >= interval_seconds
       THEN [bucket_start |-> frame_dt,
             current_bucket |-> <<j>>,
             results |-> IF st.current_bucket # <<>>
                         THEN Append1(st.results,
                                 BucketTuple(session, si, st.bucket_start,
                                             st.current_bucket))
                         ELSE st.results]
       ELSE [st EXCEPT !.current_bucket = Append1(@, j)]

\* variant: the last bucket of a session is forgotten
BucketLast_forgotten(st, session, si) == st.results

\* "Don't forget the last bucket"
BucketLast(st, session, si) ==
    IF st.current_bucket # <<>>
    THEN Append1(st.results,
            BucketTuple(session, si, st.bucket_start, st.current_bucket))
    ELSE st.results

\* the loop over session.frames from frame j on
RECURSIVE BucketFrames(_, _, _, _, _, _, _)
BucketFrames(st, session, si, j, interval_seconds, dither_events, margin) ==
    IF j > Len(session.frames) THEN st
    ELSE BucketFrames(
            BucketFrame(st, session, si, j, interval_seconds, dither_events, margin),
            session, si, j + 1, interval_seconds, dither_events, margin)

\* the loop over self.sessions from session si on
RECURSIVE BucketSessions(_, _, _, _, _, _)
BucketSessions(sessions, si, results, interval_seconds, dither_events, margin) ==
    IF si > Len(sessions) THEN results
    ELSE IF sessions[si].frames = <<>>
    THEN BucketSessions(sessions, si + 1, results, interval_seconds,
                        dither_events, margin)
    ELSE BucketSessions(sessions, si + 1,
            BucketLast(
               BucketFrames(BucketStart(sessions[si], results), sessions[si],
                            si, 1, interval_seconds, dither_events, margin),
               sessions[si], si),
            interval_seconds, dither_events, margin)

get_rms_over_time(p, interval_seconds, dither_events, margin) ==
    BucketSessions(p.sessions, 1, <<>>, interval_seconds, dither_events, margin)

---------------------------------------------------------------------------
(* correlate_guiding_with_exposures *)

\* pixel scale of the first session that has one, else 1.0
CorrPixelScale(sessions) ==
    LET with == {i \in 1..Len(sessions) : sessions[i].pixel_scale # 0}
    IN IF with = {} THEN 1
       ELSE sessions[CHOOSE i \in with : \A j \in with : i <= j].pixel_scale

\* variant: the end of the exposure window is excluded
InExposureWindow_openEnd(exposure, frame_dt) ==
    /\ exposure.timestamp <= frame_dt
    /\ frame_dt < exposure.timestamp + exposure.exposure_time

\* exp_start <= frame_dt <= exp_end
InExposureWindow(exposure, frame_dt) ==
    /\ exposure.timestamp <= frame_dt
    /\ frame_dt <= exposure.timestamp + exposure.exposure_time

\* the dither test inlined in the loop
CorrIsDither(frame_dt, dither_events, margin) ==
    \E k \in 1..Len(dither_events) :
        /\ dither_events[k].start_time - margin <= frame_dt
        /\ frame_dt <= DitherEnd(dither_events[k]) + margin

\* the frames of the session whose values the inner loop appends
CorrSessionFrames(session, exposure, dither_events, margin) ==
    SelectSeq(session.frames,
        LAMBDA frame :
            /\ InExposureWindow(exposure, session.start_time + frame.time)
            /\ ~(/\ TruthyList(dither_events)
                 /\ CorrIsDither(session.start_time + frame.time,
                                 Val(dither_events), margin)))

\* the frames appended for one exposure, over the sessions from si on
RECURSIVE CorrFrames(_, _, _, _, _)
CorrFrames(sessions, si, exposure, dither_events, margin) ==
    IF si > Len(sessions) THEN <<>>
    ELSE CorrSessionFrames(sessions[si], exposure, dither_events, margin)
         \o CorrFrames(sessions, si + 1, exposure, dither_events, margin)

\* variant: the write also clears the HFR the parser stored
CorrWrite_dropsHfr(exposure, frames, pixel_scale) ==
    LET ra_values == [k \in 1..Len(frames) |-> frames[k].ra_raw]
        dec_values == [k \in 1..Len(frames) |-> frames[k].dec_raw]
        ra_rms == Scaled(RmsPx(ra_values), pixel_scale)
        dec_rms == Scaled(RmsPx(dec_values), pixel_scale)
    IN IF ra_values # <<>>
       THEN [exposure EXCEPT !.ra_rms = Some(ra_rms),
                             !.dec_rms = Some(dec_rms),
                             !.total_rms = Some(Quadrature(ra_rms, dec_rms)),
                             !.guiding_frames = Len(ra_values),
                             !.hfr = None]
       ELSE exposure

\* variant: the frame count accumulates over calls
CorrWrite_accumulate(exposure, frames, pixel_scale) ==
    LET ra_values == [k \in 1..Len(frames) |-> frames[k].ra_raw]
        dec_values == [k \in 1..Len(frames) |-> frames[k].dec_raw]
        ra_rms == Scaled(RmsPx(ra_values), pixel_scale)
        dec_rms == Scaled(RmsPx(dec_values), pixel_scale)
    IN IF ra_values # <<>>
       THEN [exposure EXCEPT !.ra_rms = Some(ra_rms),
                             !.dec_rms = Some(dec_rms),
                             !.total_rms = Some(Quadrature(ra_rms, dec_rms)),
                             !.guiding_frames = @ + Len(ra_values)]
       ELSE exposure

\* "Calculate RMS for this exposure": the writes to the exposure
CorrWrite(exposure, frames, pixel_scale) ==
    LET ra_values == [k \in 1..Len(frames) |-> frames[k].ra_raw]
        dec_values == [k \in 1..Len(frames) |-> frames[k].dec_raw]
        ra_rms == Scaled(RmsPx(ra_values), pixel_scale)
        dec_rms == Scaled(RmsPx(dec_values), pixel_scale)
    IN IF ra_values # <<>>
       THEN [exposure EXCEPT !.ra_rms = Some(ra_rms),
                             !.dec_rms = Some(dec_rms),
                             !.total_rms = Some(Quadrature(ra_rms, dec_rms)),
                             !.guiding_frames = Len(ra_values)]
       ELSE exposure

\* the NINAParser after correlate_guiding_with_exposures(phd2, nina, ...)
correlate_guiding_with_exposures(p, n, dither_events, margin) ==
    [n EXCEPT !.exposures =
        [k \in 1..Len(@) |->
            CorrWrite(@[k], CorrFrames(p.sessions, 1, @[k], dither_events, margin),
                      CorrPixelScale(p.sessions))]]

---------------------------------------------------------------------------
(* PHD2Parser.get_overall_rms and the per-session properties *)

\* the value 0.0
ZeroRms == Frac(0, 1)

\* pixel_scale after the loop over the sessions: every session that has a
\* scale overwrites it, so the last one that has one remains
OverallPixelScale(sessions) ==
    LET with == {i \in 1..Len(sessions) : sessions[i].pixel_scale # 0}
    IN IF with = {} THEN 1
       ELSE sessions[CHOOSE i \in with : \A j \in with : j <= i].pixel_scale

\* variant: without a dither list every frame is skipped
OverallSkips_unlessDithers(frame_dt, dither_events, margin) ==
    \/ ~TruthyList(dither_events)
    \/ is_during_dither(frame_dt, Val(dither_events), margin)

\* "Skip frames during dither": the test before continue
OverallSkips(frame_dt, dither_events, margin) ==
    /\ TruthyList(dither_events)
    /\ is_during_dither(frame_dt, Val(dither_events), margin)

\* the frames <<si, j>> whose values the loops append, in the order of the
\* appends, over the sessions from si on
RECURSIVE OverallFrames(_, _, _, _)
OverallFrames(sessions, si, dither_events, margin) ==
    IF si > Len(sessions) THEN <<>>
    ELSE LET session == sessions[si]
             kept == SelectSeq([j \in 1..Len(session.frames) |-> j],
                        LAMBDA j :
                            ~OverallSkips(session.start_time + session.frames[j].time,
                                          dither_events, margin))
         IN [k \in 1..Len(kept) |-> <<si, kept[k]>>]
            \o OverallFrames(sessions, si + 1, dither_events, margin)

\* the returned (ra_rms, dec_rms, total_rms); members records, for the
\* properties, the frames that went into all_ra and all_dec
get_overall_rms(p, dither_events, margin) ==
    LET members == OverallFrames(p.sessions, 1, dither_events, margin)
        all_ra == [k \in 1..Len(members) |->
                      p.sessions[members[k][1]].frames[members[k][2]].ra_raw]
        all_dec == [k \in 1..Len(members) |->
                       p.sessions[members[k][1]].frames[members[k][2]].dec_raw]
        pixel_scale == OverallPixelScale(p.sessions)
        ra_rms == Scaled(RmsPx(all_ra), pixel_scale)
        dec_rms == Scaled(RmsPx(all_dec), pixel_scale)
    IN IF members = <<>>
       THEN [ra_rms |-> ZeroRms, dec_rms |-> ZeroRms, total_rms |-> ZeroRms,
             members |-> members]
       ELSE [ra_rms |-> ra_rms, dec_rms |-> dec_rms,
             total_rms |-> Quadrature(ra_rms, dec_rms), members |-> members]

\* variant: the scale is applied even when it is unset
SessionScaled_alwaysScaled(session, rms_px) ==
    Scaled(rms_px, session.pixel_scale)

\* rms_px * self.pixel_scale if self.pixel_scale else rms_px
SessionScaled(session, rms_px) ==
    IF session.pixel_scale # 0 THEN Scaled(rms_px, session.pixel_scale)
    ELSE rms_px

\* GuidingSession.ra_rms
SessionRaRms(session) ==
    IF session.frames = <<>> THEN ZeroRms
    ELSE SessionScaled(session,
            RmsPx([k \in 1..Len(session.frames) |-> session.frames[k].ra_raw]))

\* GuidingSession.dec_rms
SessionDecRms(session) ==
    IF session.frames = <<>> THEN ZeroRms
    ELSE SessionScaled(session,
            RmsPx([k \in 1..Len(session.frames) |-> session.frames[k].dec_raw]))

\* GuidingSession.total_rms
SessionTotalRms(session) ==
    IF session.frames = <<>> THEN ZeroRms
    ELSE Quadrature(SessionRaRms(session), SessionDecRms(session))

---------------------------------------------------------------------------
(* Parsed data handed to the aggregation *)

\* the k-th frame of a session, t seconds after its start: the raw errors
\* differ from frame to frame
FrameAt(k, t) == GuidingFrame(k, t, k, 1 - k)

\* elapsed seconds of the frames
ElapsedTimes == {0, 1, 2}

\* start times of the guiding sessions
SessionStarts == {1, 3}

\* the frame lists of a session of n frames
FrameLists(n) ==
    {[k \in 1..n |-> FrameAt(k, el[k])] : el \in [1..n -> ElapsedTimes]}

\* a session closed by its end marker
ClosedSession(start, scale, frames) ==
    [GuidingSession(start) EXCEPT !.end_time = Some(start + 3),
                                  !.pixel_scale = scale,
                                  !.frames = frames]

\* the closed sessions of n frames that start at one of the given times
ClosedSessions(starts, n) ==
    {ClosedSession(start, scale, frames) :
        start \in starts, scale \in PixelScales, frames \in FrameLists(n)}

\* two closed sessions, the first starting at s1 with n1 frames, the second
\* starting no earlier
TwoSessions(s1, n1) ==
    UNION {{<<a, b>> :
               a \in ClosedSessions({s1}, n1),
               b \in ClosedSessions({s2 \in SessionStarts : s1 <= s2}, n2)}
           : n2 \in 0..(MaxFrames - n1)}

\* what PHD2Parser.parse leaves: up to two closed sessions in the order of
\* their start, MaxFrames frames in all
GuidingData ==
    {[sessions |-> ss, log_date |-> Some(1)] :
        ss \in {<<>>}
               \cup UNION {{<<a>> : a \in ClosedSessions(SessionStarts, n)}
                           : n \in 0..MaxFrames}
               \cup UNION {TwoSessions(s1, n1) :
                              s1 \in SessionStarts, n1 \in 0..MaxFrames}}

\* a log whose two sessions declare their own pixel scales in their header
\* lines ("Pixel scale = ... arc-sec/px" after each "Guiding Begins at"), as
\* after a change of binning or of guide camera between the two
MixedScaleData ==
    {[sessions |-> <<ClosedSession(1, a, <<FrameAt(1, 0)>>),
                     ClosedSession(3, b, <<FrameAt(2, 1)>>)>>,
      log_date |-> Some(1)] : a \in {0, 2, 3}, b \in {0, 2, 3}}

\* an exposure finalized by its save marker
SavedExposure(ts, time) ==
    [Exposure(ts, time, "L", 100, 0, "1x1") EXCEPT !.saved_path = Some("a.fits")]

ExposureLists ==
    {<<SavedExposure(2, 1)>>, <<SavedExposure(3, 2)>>,
     <<SavedExposure(2, 1), SavedExposure(4, 1)>>}

ClosedDither(start, end) == [DitherEvent(start) EXCEPT !.end_time = Some(end)]

DitherLists ==
    {<<>>, <<ClosedDither(3, 3)>>, <<ClosedDither(1, 1), ClosedDither(4, 5)>>}

\* what NINAParser.parse leaves on a fresh parser
ImagingData(exposureLists, ditherLists) ==
    {[NinaParser_init EXCEPT !.exposures = e, !.dither_events = d,
                             !.session_start = Some(1), !.session_end = Some(5)] :
        e \in exposureLists, d \in ditherLists}

\* the margins of the dither spin box
Margins == {0, 1}

\* the granularities of the chart, in seconds
Intervals == {1, 2}

---------------------------------------------------------------------------
(* SessionFinder *)

\* a file name, as the two glob patterns and the two regular expressions see
\* it: whether it ends in .log, whether it has the form PHD2_GuideLog_*.txt,
\* which of NINA_PATTERN and PHD2_PATTERN it matches, and the digits the
\* pattern captures
FileName(name, log, txt, pattern, ymd) ==
    [name |-> name, glob_log |-> log, glob_phd2 |-> txt, pattern |-> pattern,
     ymd |-> ymd]

\* what an imaging-log folder may hold
NinaFolderFiles ==
    {FileName("20260122-220419-3.2.0.9001.4256-202601.log", TRUE, FALSE,
              "nina", <<2026, 1, 22>>),
     FileName("20260122-235901-3.2.0.9001.4256-202601.log", TRUE, FALSE,
              "nina", <<2026, 1, 22>>),
     FileName("20260123-201500-3.2.0.9001.4256-202601.log", TRUE, FALSE,
              "nina", <<2026, 1, 23>>),
     FileName("20260230-201500-3.2.0.9001.4256-202602.log", TRUE, FALSE,
              "nina", <<2026, 2, 30>>),
     FileName("notes.log", TRUE, FALSE, "none", <<0, 0, 0>>),
     FileName("PHD2_GuideLog_2026-01-22_220606.txt", FALSE, TRUE,
              "phd2", <<2026, 1, 22>>)}

\* what a guiding-log folder may hold
Phd2FolderFiles ==
    {FileName("PHD2_GuideLog_2026-01-22_220606.txt", FALSE, TRUE,
              "phd2", <<2026, 1, 22>>),
     FileName("PHD2_GuideLog_2025-12-31_190000.txt", FALSE, TRUE,
              "phd2", <<2025, 12, 31>>),
     FileName("PHD2_GuideLog_2026-13-01_190000.txt", FALSE, TRUE,
              "phd2", <<2026, 13, 1>>),
     FileName("PHD2_GuideLog_latest.txt", FALSE, TRUE, "none", <<0, 0, 0>>),
     FileName("20260122-220419-3.2.0.9001.4256-202601.log", TRUE, FALSE,
              "nina", <<2026, 1, 22>>)}

\* the paths of the given files in a folder
InFolder(folder, files) ==
    {[folder |-> folder, name |-> f.name, glob_log |-> f.glob_log,
      glob_phd2 |-> f.glob_phd2, pattern |-> f.pattern, ymd |-> f.ymd] :
        f \in files}

\* the listings of a folder of at most n of the given files, in every order
\* the directory may yield them
RECURSIVE Listings(_, _)
Listings(files, n) ==
    IF n = 0 THEN {<<>>}
    ELSE Listings(files, n - 1)
         \cup {Append1(l, f) : l \in {x \in Listings(files, n - 1) : Len(x) = n - 1},
                               f \in files}

\* the listings without a repeated file
FolderListings(files, n) ==
    {l \in Listings(files, n) : Cardinality(SeqToSet(l)) = Len(l)}

\* days of the month, as datetime.date checks them
DaysInMonth(year, month) ==
    IF month \in {4, 6, 9, 11} THEN 30
    ELSE IF month = 2
    THEN (IF (year % 4 = 0 /\ year % 100 # 0) \/ year % 400 = 0 THEN 29 ELSE 28)
    ELSE 31

\* date(year, month, day) does not raise ValueError
ValidDate(ymd) ==
    /\ ymd[1] \in 1..9999
    /\ ymd[2] \in 1..12
    /\ ymd[3] \in 1..DaysInMonth(ymd[1], ymd[2])

\* a < b for two dates
DateLess(a, b) ==
    \/ a[1] < b[1]
    \/ a[1] = b[1] /\ a[2] < b[2]
    \/ a[1] = b[1] /\ a[2] = b[2] /\ a[3] < b[3]

\* SessionFinder._extract_nina_date
extract_nina_date(file) ==
    IF file.pattern = "nina"
    THEN (IF ValidDate(file.ymd) THEN Some(file.ymd) ELSE None)
    ELSE None

\* SessionFinder._extract_phd2_date
extract_phd2_date(file) ==
    IF file.pattern = "phd2"
    THEN (IF ValidDate(file.ymd) THEN Some(file.ymd) ELSE None)
    ELSE None

DiscoveredSession(session_date) ==
    [session_date |-> session_date, nina_logs |-> <<>>, phd2_logs |-> <<>>]

\* variant: one side is enough
has_both_either(session) ==
    session.nina_logs # <<>> \/ session.phd2_logs # <<>>

\* DiscoveredSession.has_both
has_both(session) ==
    session.nina_logs # <<>> /\ session.phd2_logs # <<>>

\* self._sessions is a dict in insertion order: the position of a date in it,
\* 0 when the date is not a key
SessionIndex(sessions, session_date) ==
    IF \E i \in 1..Len(sessions) : sessions[i].session_date = session_date
    THEN CHOOSE i \in 1..Len(sessions) : sessions[i].session_date = session_date
    ELSE 0

\* the dict with an entry for the date
WithSession(sessions, session_date) ==
    IF SessionIndex(sessions, session_date) = 0
    THEN Append1(sessions, DiscoveredSession(session_date))
    ELSE sessions

\* the body of the loop over the imaging folder, for one file
ScanNinaFile(sessions, file) ==
    IF IsSome(extract_nina_date(file))
    THEN LET d == Val(extract_nina_date(file))
             ss == WithSession(sessions, d)
         IN [ss EXCEPT ![SessionIndex(ss, d)].nina_logs = Append1(@, file)]
    ELSE sessions

\* the body of the loop over the guiding folder, for one file
ScanPhd2File(sessions, file) ==
    IF IsSome(extract_phd2_date(file))
    THEN LET d == Val(extract_phd2_date(file))
             ss == WithSession(sessions, d)
         IN [ss EXCEPT ![SessionIndex(ss, d)].phd2_logs = Append1(@, file)]
    ELSE sessions

\* folder.glob('*.log'): the names of the listing that end in .log
GlobLog(listing) == SelectSeq(listing, LAMBDA f : f.glob_log)

\* folder.glob('PHD2_GuideLog_*.txt')
GlobPhd2(listing) == SelectSeq(listing, LAMBDA f : f.glob_phd2)

\* the loop over the files of the imaging folder, from file k on
RECURSIVE ScanNinaFiles(_, _, _)
ScanNinaFiles(sessions, files, k) ==
    IF k > Len(files) THEN sessions
    ELSE ScanNinaFiles(ScanNinaFile(sessions, files[k]), files, k + 1)

\* the loop over the files of the guiding folder, from file k on
RECURSIVE ScanPhd2Files(_, _, _)
ScanPhd2Files(sessions, files, k) ==
    IF k > Len(files) THEN sessions
    ELSE ScanPhd2Files(ScanPhd2File(sessions, files[k]), files, k + 1)

\* what the disk d holds at the path of a folder: its listing, None when the
\* folder is unset or does not exist
FolderOnDisk(d, folder) ==
    IF IsSome(folder) /\ Val(folder) \in DOMAIN d THEN d[Val(folder)] ELSE None

\* "if self.nina_folder and self.nina_folder.exists()": the folder is set
\* and on disk
FolderScanned(folder, on_disk) == IsSome(folder) /\ IsSome(on_disk)

\* variant: the sort is oldest first
InsertByDate_ascending(sorted, session) ==
    LET before == SelectSeq(sorted,
                     LAMBDA s : ~DateLess(session.session_date, s.session_date))
        after == SelectSeq(sorted,
                     LAMBDA s : DateLess(session.session_date, s.session_date))
    IN before \o <<session>> \o after

\* one insertion of the stable sort by session_date, reverse=True
InsertByDate(sorted, session) ==
    LET before == SelectSeq(sorted,
                     LAMBDA s : ~DateLess(s.session_date, session.session_date))
        after == SelectSeq(sorted,
                     LAMBDA s : DateLess(s.session_date, session.session_date))
    IN before \o <<session>> \o after

\* sorted(self._sessions.values(), key=lambda s: s.session_date, reverse=True)
RECURSIVE SortedNewestFirst(_, _)
SortedNewestFirst(sessions, k) ==
    IF k = 0 THEN <<>>
    ELSE InsertByDate(SortedNewestFirst(sessions, k - 1), sessions[k])

\* variant: a missing imaging folder ends the scan
ScanGuidingFolder_afterImaging(sessions, f, d) ==
    IF /\ FolderScanned(f.nina_folder, FolderOnDisk(d, f.nina_folder))
       /\ FolderScanned(f.phd2_folder, FolderOnDisk(d, f.phd2_folder))
    THEN ScanPhd2Files(sessions, GlobPhd2(Val(FolderOnDisk(d, f.phd2_folder))), 1)
    ELSE sessions

\* "Scan PHD2 logs"
ScanGuidingFolder(sessions, f, d) ==
    IF FolderScanned(f.phd2_folder, FolderOnDisk(d, f.phd2_folder))
    THEN ScanPhd2Files(sessions, GlobPhd2(Val(FolderOnDisk(d, f.phd2_folder))), 1)
    ELSE sessions

\* "Scan NINA logs"
ScanImagingFolder(sessions, f, d) ==
    IF FolderScanned(f.nina_folder, FolderOnDisk(d, f.nina_folder))
    THEN ScanNinaFiles(sessions, GlobLog(Val(FolderOnDisk(d, f.nina_folder))), 1)
    ELSE sessions

\* variant: the dict of the scan before is kept
ScanReset_keeps(sessions) == sessions

\* "self._sessions = {}" at the head of scan
ScanReset(sessions) == <<>>

\* self._sessions after scan on the finder f and the disk d
ScanSessions(f, d) ==
    ScanGuidingFolder(ScanImagingFolder(ScanReset(f.sessions), f, d), f, d)

\* SessionFinder.scan on the finder f and the disk d: the returned list
scan(f, d) ==
    LET sessions == ScanSessions(f, d)
    IN SortedNewestFirst(sessions, Len(sessions))

\* SessionFinder.get_matching_sessions
get_matching_sessions(f, d) == SelectSeq(scan(f, d), has_both)

---------------------------------------------------------------------------
(* SessionFinder and MainWindow objects *)

\* SessionFinder.__init__ with no folder given
SessionFinder_init ==
    [nina_folder |-> None, phd2_folder |-> None, sessions |-> <<>>]

\* neither folder exists on disk
NoDisk == [nina_logs |-> None, phd2_logs |-> None]

\* MainWindow.__init__: nothing selected, nothing parsed, nothing shown.
\* phd2_call and nina_call record the latest parse call made on each side
\* (its file and whether it returned or raised), load what the latest
\* _load_session did, shown_phd2 and shown_nina the parsers the views hold
MainWindow_init ==
    [phd2_path |-> None, nina_path |-> None,
     phd2_parser |-> None, nina_parser |-> None,
     shown_phd2 |-> None, shown_nina |-> None,
     phd2_call |-> None, nina_call |-> None, load |-> None]

---------------------------------------------------------------------------
(* Config *)

\* self._config as __init__ assigns it
Config_init ==
    [nina_folder |-> None, phd2_folder |-> None, dither_margin |-> 3,
     exclude_dither |-> TRUE, granularity_minutes |-> 1,
     window_geometry |-> None]

\* config.json on disk. kind is "missing" when the path does not exist,
\* "denied" when open() raises OSError, "object" when the text is a JSON
\* object (saved holds it), "truncated" when it is no JSON, "binary" when
\* the bytes are no UTF-8, "array" for a JSON array of numbers, "scalar" for
\* a JSON number, true, false or null, "string" for a non-empty JSON string
SettingsFile(kind, saved) == [kind |-> kind, saved |-> saved]

\* the settings files a start of the program may find
SettingsFiles ==
    {SettingsFile(kind, <<>>) :
        kind \in {"missing", "denied", "truncated", "binary", "array",
                  "scalar", "string"}}
    \cup {SettingsFile("object", saved) :
             saved \in {Config_init,
                        [dither_margin |-> 5, exclude_dither |-> FALSE],
                        [granularity_minutes |-> 5, theme |-> "dark"]}}

\* what the body of the try raises on the file, "" when it completes:
\* open() on a path that cannot be opened, json.load on bytes that are no
\* UTF-8 or on text that is no JSON, self._config.update on a decoded value
\* that is no mapping
LoadRaises(file) ==
    CASE file.kind = "denied" -> "IOError"
      [] file.kind = "binary" -> "UnicodeDecodeError"
      [] file.kind = "truncated" -> "JSONDecodeError"
      [] file.kind = "array" -> "TypeError"
      [] file.kind = "scalar" -> "TypeError"
      [] file.kind = "string" -> "ValueError"
      [] OTHER -> ""

\* except (json.JSONDecodeError, IOError)
Caught(exc) == exc \in {"JSONDecodeError", "IOError"}

\* Config.load on _config = settings: the _config it leaves and the
\* exception that leaves it, "" when it returns
Config_load(settings, file) ==
    IF file.kind = "missing" THEN [settings |-> settings, raised |-> ""]
    ELSE LET exc == LoadRaises(file)
         IN IF exc = "" THEN [settings |-> file.saved @@ settings, raised |-> ""]
            ELSE IF Caught(exc) THEN [settings |-> settings, raised |-> ""]
            ELSE [settings |-> settings, raised |-> exc]

\* Config.save: the file it leaves; an OSError of open() is swallowed
Config_save(settings, file) ==
    IF file.kind = "denied" THEN file ELSE SettingsFile("object", settings)

\* the values the property setters are given
SettingValues(key) ==
    CASE key = "nina_folder" -> {None, Some("nina_logs")}
      [] key = "dither_margin" -> {0, 3}
      [] key = "exclude_dither" -> BOOLEAN
      [] key = "granularity_minutes" -> {1, 5}

---------------------------------------------------------------------------
(* State *)

VARIABLES
    phd2,        \* the PHD2Parser object: sessions, log_date
    phd2_cur,    \* the local current_session of PHD2Parser.parse
    phd2_pc,     \* "new", "scan" (inside parse), "returned", "raised"
    phd2_file,   \* the lines the running (or last) parse call has read
    phd2_n,      \* lines this instance has read over all its parse calls
    phd2_calls,  \* parse calls on this instance
    phd2_vocab,  \* the vocabulary of the guiding logs given to this instance
    phd2_ref,    \* a PHD2Parser constructed for the running call, same lines
    nina,        \* the NINAParser object
    nina_pc,     \* "new", "scan", "returned", "raised"
    nina_file,   \* the lines the running (or last) parse call has read
    nina_n,      \* lines this instance has read over all its parse calls
    nina_calls,  \* parse calls on this instance
    nina_vocab,  \* the vocabulary of the imaging logs given to this instance
    nina_ref,    \* a NINAParser constructed for the running call, same lines
    corr_args,   \* the dither list and margin of the latest call of
                 \* correlate_guiding_with_exposures, None before the first
    corr_again,  \* whether that call had the arguments of the call before it
    rms_args,    \* the interval, dither list and margin of the latest call
                 \* of get_rms_over_time, None before the first
    rms_data,    \* what that call returned
    summary,     \* what SessionSummaryWidget.update_data last computed
    sessions_table, \* the rows GuidingSessionsTable.set_data last filled
    finder,      \* the SessionFinder object: nina_folder, phd2_folder
    disk,        \* the two log folders on disk
    scan_out,    \* what the latest call on the SessionFinder returned
    window,      \* the MainWindow: selected paths, parsers, what it reported
    config,      \* the Config object: _config, and how its last load ended
    config_file  \* the persisted settings file config.json

phd2_vars == <<phd2, phd2_cur, phd2_pc, phd2_file, phd2_n, phd2_calls,
               phd2_vocab, phd2_ref>>
nina_vars == <<nina, nina_pc, nina_file, nina_n, nina_calls, nina_vocab,
               nina_ref>>
agg_vars == <<corr_args, corr_again, rms_args, rms_data>>
view_vars == <<summary, sessions_table>>
finder_vars == <<finder, disk, scan_out>>
config_vars == <<config, config_file>>
app_vars == <<view_vars, finder_vars, window, config_vars>>
vars == <<phd2_vars, nina_vars, agg_vars, app_vars>>

\* the state after PHD2Parser()
Phd2New ==
    /\ phd2 = Phd2Parser_init
    /\ phd2_cur = None
    /\ phd2_pc = "new"
    /\ phd2_file = <<>>
    /\ phd2_n = 0
    /\ phd2_calls = 0
    /\ phd2_ref = Phd2Parser_init

\* no aggregation has been called
AggNew ==
    /\ corr_args = None
    /\ corr_again = FALSE
    /\ rms_args = None
    /\ rms_data = None

\* no view has been filled
ViewNew ==
    /\ summary = None
    /\ sessions_table = None

\* SessionFinder() on empty folders, before any call
FinderNew ==
    /\ finder = SessionFinder_init
    /\ disk = NoDisk
    /\ scan_out = None

\* no Config has been constructed and no settings file is on disk
ConfigNone ==
    /\ config = None
    /\ config_file = SettingsFile("missing", <<>>)

\* the MainWindow after construction
AppNew ==
    /\ ViewNew
    /\ FinderNew
    /\ window = MainWindow_init
    /\ ConfigNone

\* the state after NINAParser()
NinaNew ==
    /\ nina = NinaParser_init
    /\ nina_pc = "new"
    /\ nina_file = <<>>
    /\ nina_n = 0
    /\ nina_calls = 0
    /\ nina_ref = NinaParser_init

---------------------------------------------------------------------------
(* PHD2Parser.parse *)

\* the assignment parse makes before it opens the file
Phd2ParseReset(p) == [p EXCEPT !.sessions = <<>>]

\* parse is called on the instance (again, after a call that returned or raised)
Phd2ParseCall ==
    /\ phd2_pc # "scan"
    /\ phd2_calls < MaxParses
    /\ phd2' = Phd2ParseReset(phd2)
    /\ phd2_ref' = Phd2ParseReset(Phd2Parser_init)
    /\ phd2_cur' = None
    /\ phd2_pc' = "scan"
    /\ phd2_file' = <<>>
    /\ phd2_calls' = phd2_calls + 1
    /\ UNCHANGED <<phd2_n, phd2_vocab, nina_vars, agg_vars, app_vars>>

\* one iteration of the loop over the lines of the file
Phd2ParseLine ==
    /\ phd2_pc = "scan"
    /\ phd2_n < MaxGuideLines
    /\ \E line \in Phd2LinesOf(phd2_vocab) :
         /\ phd2_file' = Append1(phd2_file, line)
         /\ IF Phd2Raises(phd2_cur, line)
            THEN /\ phd2_pc' = "raised"
                 /\ UNCHANGED <<phd2, phd2_cur, phd2_ref>>
            ELSE /\ phd2' = Phd2ObjAfter(phd2, phd2_cur, line)
                 /\ phd2_ref' = Phd2ObjAfter(phd2_ref, phd2_cur, line)
                 /\ phd2_cur' = Phd2CurAfter(phd2_cur, line)
                 /\ UNCHANGED phd2_pc
    /\ phd2_n' = phd2_n + 1
    /\ UNCHANGED <<phd2_calls, phd2_vocab, nina_vars, agg_vars, app_vars>>

\* end of file: parse returns self.sessions
Phd2ParseReturn ==
    /\ phd2_pc = "scan"
    /\ phd2_pc' = "returned"
    /\ UNCHANGED <<phd2, phd2_cur, phd2_file, phd2_n, phd2_calls, phd2_vocab,
                   phd2_ref, nina_vars, agg_vars, app_vars>>

InitPhd2 ==
    /\ Phd2New
    /\ NinaNew
    /\ AggNew
    /\ AppNew
    /\ phd2_vocab \in Phd2Vocabs
    /\ nina_vocab = "dither"

NextPhd2 == Phd2ParseCall \/ Phd2ParseLine \/ Phd2ParseReturn

SpecPhd2 == InitPhd2 /\ [][NextPhd2]_vars

---------------------------------------------------------------------------
(* NINAParser.parse *)

\* parse is called on the instance (again, after a call that returned or raised)
NinaParseCall ==
    /\ nina_pc # "scan"
    /\ nina_calls < MaxParses
    /\ nina' = NinaParseReset(nina)
    /\ nina_ref' = NinaParseReset(NinaParser_init)
    /\ nina_pc' = "scan"
    /\ nina_file' = <<>>
    /\ nina_calls' = nina_calls + 1
    /\ UNCHANGED <<nina_n, nina_vocab, phd2_vars, agg_vars, app_vars>>

\* one iteration of the loop over the lines of the file
NinaParseLine ==
    /\ nina_pc = "scan"
    /\ nina_n < MaxLines
    /\ \E line \in NinaLinesOf(nina_vocab) :
         /\ nina_file' = Append1(nina_file, line)
         /\ nina' = parse_line(nina, line).p
         /\ nina_ref' = parse_line(nina_ref, line).p
         /\ nina_pc' = IF parse_line(nina, line).raised THEN "raised" ELSE "scan"
    /\ nina_n' = nina_n + 1
    /\ UNCHANGED <<nina_calls, nina_vocab, phd2_vars, agg_vars, app_vars>>

\* end of file: parse returns
NinaParseReturn ==
    /\ nina_pc = "scan"
    /\ nina_pc' = "returned"
    /\ UNCHANGED <<nina, nina_file, nina_n, nina_calls, nina_vocab, nina_ref,
                   phd2_vars, agg_vars, app_vars>>

InitNina ==
    /\ Phd2New
    /\ NinaNew
    /\ AggNew
    /\ AppNew
    /\ phd2_vocab = "sessions"
    /\ nina_vocab \in NinaVocabs

NextNina == NinaParseCall \/ NinaParseLine \/ NinaParseReturn

SpecNina == InitNina /\ [][NextNina]_vars

\* NINAParser() given logs whose lines differ in how they begin
InitStamps ==
    /\ Phd2New
    /\ NinaNew
    /\ AggNew
    /\ AppNew
    /\ phd2_vocab = "sessions"
    /\ nina_vocab = "stamps"

NextStamps == NinaParseCall \/ NinaParseLine \/ NinaParseReturn

SpecStamps == InitStamps /\ [][NextStamps]_vars

\* NINAParser() given logs of autofocus runs and star detections
InitAutofocus ==
    /\ Phd2New
    /\ NinaNew
    /\ AggNew
    /\ AppNew
    /\ phd2_vocab = "sessions"
    /\ nina_vocab = "focus"

NextAutofocus == NinaParseCall \/ NinaParseLine \/ NinaParseReturn

SpecAutofocus == InitAutofocus /\ [][NextAutofocus]_vars

\* NINAParser() given logs of filter changes, exposures and star detections
InitRolling ==
    /\ Phd2New
    /\ NinaNew
    /\ AggNew
    /\ AppNew
    /\ phd2_vocab = "sessions"
    /\ nina_vocab = "rolling"

NextRolling == NinaParseCall \/ NinaParseLine \/ NinaParseReturn

SpecRolling == InitRolling /\ [][NextRolling]_vars

---------------------------------------------------------------------------
(* The main window on loaded data: _update_widgets, _on_dither_settings_changed *)

\* both parsers hold the data of a loaded session
Loaded(guiding, imaging) ==
    /\ phd2 \in guiding
    /\ phd2_cur = None
    /\ phd2_pc = "returned"
    /\ phd2_file = <<>>
    /\ phd2_n = 0
    /\ phd2_calls = 1
    /\ phd2_vocab = "sessions"
    /\ phd2_ref = phd2
    /\ nina \in imaging
    /\ nina_pc = "returned"
    /\ nina_file = <<>>
    /\ nina_n = 0
    /\ nina_calls = 1
    /\ nina_vocab = "dither"
    /\ nina_ref = nina
    /\ AggNew
    /\ AppNew

\* dither_events = nina.dither_events if exclude else None
DitherArg(exclude) == IF exclude THEN Some(nina.dither_events) ELSE None

\* _update_widgets and _on_dither_settings_changed: correlate with the
\* settings of the chart widget
Correlate ==
    /\ phd2_pc = "returned" /\ nina_pc = "returned"
    /\ \E exclude \in BOOLEAN, margin \in Margins :
         /\ nina' = correlate_guiding_with_exposures(phd2, nina,
                                                     DitherArg(exclude), margin)
         /\ corr_args' = Some([dither_events |-> DitherArg(exclude),
                               margin |-> margin])
         /\ corr_again' = (corr_args = Some([dither_events |-> DitherArg(exclude),
                                             margin |-> margin]))
    /\ UNCHANGED <<phd2_vars, nina_pc, nina_file, nina_n, nina_calls,
                   nina_vocab, nina_ref, rms_args, rms_data, app_vars>>

\* a guiding log is loaded and a NINAParser is constructed: the imaging log
\* is parsed (again) and the two are correlated, as on every load
InitSession ==
    /\ phd2 \in {[sessions |-> ss, log_date |-> Some(1)] :
                    ss \in {<<>>,
                            <<ClosedSession(1, 2, <<FrameAt(1, 0), FrameAt(2, 1)>>)>>}}
    /\ phd2_cur = None
    /\ phd2_pc = "returned"
    /\ phd2_file = <<>>
    /\ phd2_n = 0
    /\ phd2_calls = 1
    /\ phd2_vocab = "sessions"
    /\ phd2_ref = phd2
    /\ NinaNew
    /\ nina_vocab = "session"
    /\ AggNew
    /\ AppNew

NextSession == NinaParseCall \/ NinaParseLine \/ NinaParseReturn \/ Correlate

SpecSession == InitSession /\ [][NextSession]_vars

InitCorr == Loaded(GuidingData, ImagingData(ExposureLists, DitherLists))

NextCorr == Correlate

SpecCorr == InitCorr /\ [][NextCorr]_vars

\* GuidingChartWidget._update_chart: the bucketed series for the settings of
\* the chart widget
RmsOverTime ==
    /\ phd2_pc = "returned" /\ nina_pc = "returned"
    /\ \E interval \in Intervals, exclude \in BOOLEAN, margin \in Margins :
         /\ rms_data' = Some(get_rms_over_time(phd2, interval,
                                               DitherArg(exclude), margin))
         /\ rms_args' = Some([interval |-> interval,
                              dither_events |-> DitherArg(exclude),
                              margin |-> margin])
    /\ UNCHANGED <<phd2_vars, nina_vars, corr_args, corr_again, app_vars>>

InitRms == Loaded(GuidingData, ImagingData({<<>>}, {<<>>, <<ClosedDither(3, 3)>>}))

NextRms == RmsOverTime

SpecRms == InitRms /\ [][NextRms]_vars

---------------------------------------------------------------------------
(* The views on loaded data: the summary, the chart, the sessions table *)

\* SessionSummaryWidget.update_data, the guiding part: the raw and the
\* filtered aggregate, and the labels, which are rewritten only when the
\* displayed ra_rms is positive
update_data(old, p, n, margin, exclude) ==
    IF p.sessions = <<>> THEN old
    ELSE LET dither_events == Some(n.dither_events)
             raw == get_overall_rms(p, None, margin)
             filter == TruthyList(dither_events) /\ exclude
             filtered == IF filter
                         THEN Some(get_overall_rms(p, dither_events, margin))
                         ELSE None
             shown == IF filter THEN Val(filtered) ELSE raw
         IN Some([raw |-> raw, filtered |-> filtered,
                  labels |-> IF shown.ra_rms[1] > 0
                             THEN Some([ra_rms |-> shown.ra_rms,
                                        dec_rms |-> shown.dec_rms,
                                        total_rms |-> shown.total_rms])
                             ELSE IF IsSome(old) THEN Val(old).labels
                             ELSE None])

\* GuidingSessionsTable.set_data: one row per session
SessionRows(p) ==
    [i \in 1..Len(p.sessions) |->
        [ra_rms |-> SessionRaRms(p.sessions[i]),
         dec_rms |-> SessionDecRms(p.sessions[i]),
         total_rms |-> SessionTotalRms(p.sessions[i]),
         frames |-> Len(p.sessions[i].frames)]]

\* what the correlation, the summary and the chart become for the settings
\* of the chart widget
Refreshed(interval, exclude, margin) ==
    /\ nina' = correlate_guiding_with_exposures(phd2, nina,
                                                DitherArg(exclude), margin)
    /\ corr_args' = Some([dither_events |-> DitherArg(exclude),
                          margin |-> margin])
    /\ corr_again' = (corr_args = Some([dither_events |-> DitherArg(exclude),
                                        margin |-> margin]))
    /\ summary' = update_data(summary, phd2, nina, margin, exclude)
    /\ rms_data' = Some(get_rms_over_time(phd2, interval,
                                          DitherArg(exclude), margin))
    /\ rms_args' = Some([interval |-> interval,
                         dither_events |-> DitherArg(exclude),
                         margin |-> margin])

\* MainWindow._update_widgets: correlate, then fill every view
UpdateWidgets ==
    /\ phd2_pc = "returned" /\ nina_pc = "returned"
    /\ sessions_table = None
    /\ \E interval \in Intervals, exclude \in BOOLEAN, margin \in Margins :
         Refreshed(interval, exclude, margin)
    /\ sessions_table' = Some(SessionRows(phd2))
    /\ UNCHANGED <<phd2_vars, nina_pc, nina_file, nina_n, nina_calls,
                   nina_vocab, nina_ref, finder_vars, window, config_vars>>

InitViews ==
    Loaded(GuidingData \cup MixedScaleData,
           ImagingData({<<SavedExposure(2, 1), SavedExposure(3, 2)>>},
                       {<<>>, <<ClosedDither(3, 3)>>}))

NextViews == UpdateWidgets

SpecViews == InitViews /\ [][NextViews]_vars

---------------------------------------------------------------------------
(* Config on the persisted settings file *)

\* the Config object after a load: read records the file the load found
Configured(settings, file) ==
    Some([settings |-> Config_load(settings, file).settings,
          raised |-> Config_load(settings, file).raised,
          read |-> file])

\* get_config(): the first call constructs the Config, which loads the file
ConfigConstruct ==
    /\ config = None
    /\ config' = Configured(Config_init, config_file)
    /\ UNCHANGED <<phd2_vars, nina_vars, agg_vars, view_vars, finder_vars,
                   window, config_file>>

\* Config.load on the constructed object
ConfigLoad ==
    /\ IsSome(config) /\ Val(config).raised = ""
    /\ config' = Configured(Val(config).settings, config_file)
    /\ UNCHANGED <<phd2_vars, nina_vars, agg_vars, view_vars, finder_vars,
                   window, config_file>>

\* a property setter: the assignment, then Config.save
ConfigSet ==
    /\ IsSome(config) /\ Val(config).raised = ""
    /\ \E key \in {"nina_folder", "dither_margin", "exclude_dither",
                    "granularity_minutes"} :
         \E value \in SettingValues(key) :
            LET settings == [Val(config).settings EXCEPT ![key] = value]
            IN /\ config' = Some([Val(config) EXCEPT !.settings = settings])
               /\ config_file' = Config_save(settings, config_file)
    /\ UNCHANGED <<phd2_vars, nina_vars, agg_vars, view_vars, finder_vars,
                   window>>

InitConfig ==
    /\ Phd2New
    /\ NinaNew
    /\ AggNew
    /\ ViewNew
    /\ FinderNew
    /\ window = MainWindow_init
    /\ phd2_vocab = "sessions"
    /\ nina_vocab = "dither"
    /\ config = None
    /\ config_file \in SettingsFiles

NextConfig == ConfigConstruct \/ ConfigLoad \/ ConfigSet

SpecConfig == InitConfig /\ [][NextConfig]_vars

---------------------------------------------------------------------------
(* The session selector on the two log folders *)

\* SessionFinder.set_nina_folder, given a folder of the disk other than the
\* one of the guiding logs
SetNinaFolder ==
    /\ \E folder \in DOMAIN disk \ {"phd2_logs"} :
         finder' = [finder EXCEPT !.nina_folder = Some(folder)]
    /\ UNCHANGED <<phd2_vars, nina_vars, agg_vars, view_vars, disk, scan_out,
                   window, config_vars>>

\* SessionFinder.set_phd2_folder, given a folder of the disk other than the
\* one of the imaging logs
SetPhd2Folder ==
    /\ \E folder \in DOMAIN disk \ {"nina_logs"} :
         finder' = [finder EXCEPT !.phd2_folder = Some(folder)]
    /\ UNCHANGED <<phd2_vars, nina_vars, agg_vars, view_vars, disk, scan_out,
                   window, config_vars>>

\* the files a dict of sessions lists, on either side
ListedFiles(sessions) ==
    UNION {SeqToSet(sessions[i].nina_logs) \cup SeqToSet(sessions[i].phd2_logs) :
               i \in 1..Len(sessions)}

\* the folders that the dict of the scan before lists files of and that the
\* finder f no longer has set
StaleFolders(f) ==
    {file.folder : file \in ListedFiles(f.sessions)}
        \ {Val(folder) : folder \in {x \in {f.nina_folder, f.phd2_folder} : IsSome(x)}}

\* SessionFinder.scan; scan_out records the call, the finder it leaves, the
\* folders that were stale in the dict it found, and the list it returned
Scan ==
    /\ finder' = [finder EXCEPT !.sessions = ScanSessions(finder, disk)]
    /\ scan_out' = Some([call |-> "scan", finder |-> finder',
                         stale |-> StaleFolders(finder),
                         sessions |-> scan(finder, disk)])
    /\ UNCHANGED <<phd2_vars, nina_vars, agg_vars, view_vars, disk,
                   window, config_vars>>

\* SessionFinder.get_matching_sessions, which calls scan
GetMatchingSessions ==
    /\ finder' = [finder EXCEPT !.sessions = ScanSessions(finder, disk)]
    /\ scan_out' = Some([call |-> "get_matching_sessions", finder |-> finder',
                         stale |-> StaleFolders(finder),
                         sessions |-> get_matching_sessions(finder, disk)])
    /\ UNCHANGED <<phd2_vars, nina_vars, agg_vars, view_vars, disk,
                   window, config_vars>>

\* a folder on disk: missing, or with at most MaxFiles log files
Folders(files) == {None} \cup {Some(l) : l \in FolderListings(files, MaxFiles)}

\* SessionFinder(nina_folder, phd2_folder), each folder given or not, on the
\* folders of the disk
InitFinder ==
    /\ Phd2New
    /\ NinaNew
    /\ AggNew
    /\ ViewNew
    /\ phd2_vocab = "sessions"
    /\ nina_vocab = "dither"
    /\ window = MainWindow_init
    /\ ConfigNone
    /\ finder \in {[SessionFinder_init EXCEPT !.nina_folder = n,
                                               !.phd2_folder = p] :
                      n \in {None, Some("nina_logs")},
                      p \in {None, Some("phd2_logs")}}
    /\ disk \in {[nina_logs |-> n, phd2_logs |-> p] :
                    n \in Folders(InFolder("nina_logs", NinaFolderFiles)),
                    p \in Folders(InFolder("phd2_logs", Phd2FolderFiles))}
    /\ scan_out = None

NextFinder == SetNinaFolder \/ SetPhd2Folder \/ Scan \/ GetMatchingSessions

SpecFinder == InitFinder /\ [][NextFinder]_vars

\* the imaging logs as the folder the logs were moved to may hold them
MovedFolderFiles ==
    {f \in NinaFolderFiles : f.pattern = "nina" /\ ValidDate(f.ymd)}

\* SessionFinder() on a disk with the two log folders and a third folder,
\* which the logs of either tool may have been moved to
InitRescan ==
    /\ Phd2New
    /\ NinaNew
    /\ AggNew
    /\ ViewNew
    /\ phd2_vocab = "sessions"
    /\ nina_vocab = "dither"
    /\ window = MainWindow_init
    /\ ConfigNone
    /\ finder = SessionFinder_init
    /\ disk \in {[nina_logs |-> Some(n), phd2_logs |-> Some(p), moved_logs |-> m] :
                    n \in {l \in FolderListings(InFolder("nina_logs", MovedFolderFiles),
                                                 MaxFiles) : l # <<>>},
                    p \in {<<f>> : f \in InFolder("phd2_logs",
                                      {x \in Phd2FolderFiles : x.pattern = "phd2"})},
                    m \in {None} \cup
                          {Some(<<f>>) :
                              f \in InFolder("moved_logs", MovedFolderFiles)}}
    /\ scan_out = None

NextRescan == SetNinaFolder \/ SetPhd2Folder \/ Scan \/ GetMatchingSessions

SpecRescan == InitRescan /\ [][NextRescan]_vars

---------------------------------------------------------------------------
(* MainWindow._load_session on the selected files *)

\* a path: whether open() succeeds on it, and the lines of the file
LogFile(readable, lines) == [readable |-> readable, lines |-> lines]

\* variant: a path that cannot be opened reads as an empty file
OpenRaises_never(file) == FALSE

\* open(filepath, 'r') raises OSError for a missing or unreadable file
OpenRaises(file) == ~file.readable

\* the loop of PHD2Parser.parse over the lines from line k on: the parser
\* it leaves and whether a line raised
RECURSIVE Phd2ScanLines(_, _, _, _)
Phd2ScanLines(p, cur, lines, k) ==
    IF k > Len(lines) THEN [p |-> p, raised |-> FALSE]
    ELSE IF Phd2Raises(cur, lines[k]) THEN [p |-> p, raised |-> TRUE]
    ELSE Phd2ScanLines(Phd2ObjAfter(p, cur, lines[k]),
                       Phd2CurAfter(cur, lines[k]), lines, k + 1)

\* PHD2Parser.parse(filepath), the whole call
Phd2Parse(p, file) ==
    IF OpenRaises(file) THEN [p |-> Phd2ParseReset(p), raised |-> TRUE]
    ELSE Phd2ScanLines(Phd2ParseReset(p), None, file.lines, 1)

\* the loop of NINAParser.parse over the lines from line k on
RECURSIVE NinaScanLines(_, _, _)
NinaScanLines(p, lines, k) ==
    IF k > Len(lines) THEN [p |-> p, raised |-> FALSE]
    ELSE LET scanned == parse_line(p, lines[k])
         IN IF scanned.raised THEN scanned
            ELSE NinaScanLines(scanned.p, lines, k + 1)

\* NINAParser.parse(filepath), the whole call
NinaParse(p, file) ==
    IF OpenRaises(file) THEN [p |-> NinaParseReset(p), raised |-> TRUE]
    ELSE NinaScanLines(NinaParseReset(p), file.lines, 1)

\* the guiding logs a path may name: a missing file, an empty one, one
\* session with a frame, the same with a pixel scale and another frame, and
\* one session followed by a begin line whose digits are no date
Phd2LogFiles ==
    LET begins == Phd2Line("Begins", TRUE, TRUE, 1, 0, NoFrame)
        ends == Phd2Line("Ends", TRUE, TRUE, LastTime, 0, NoFrame)
        frame(f) == Phd2Line("Frame", TRUE, TRUE, 0, 0, f)
    IN {LogFile(FALSE, <<>>),
        LogFile(TRUE, <<>>),
        LogFile(TRUE, <<begins, frame(GuidingFrame(1, 0, 1, 0)), ends>>),
        LogFile(TRUE, <<begins, Phd2Line("PixelScale", TRUE, TRUE, 0, 2, NoFrame),
                        frame(GuidingFrame(2, 1, -2, 1)), ends>>),
        LogFile(TRUE, <<begins, frame(GuidingFrame(1, 0, 1, 0)), ends,
                        Phd2Line("Begins", TRUE, FALSE, 0, 0, NoFrame)>>)}

\* the imaging logs a path may name: a missing file, an empty one, one saved
\* exposure, a dither and a saved exposure, one saved exposure followed by an
\* alert whose value is no number, and a line whose timestamp is no date
NinaLogFiles ==
    LET at(ts) == NinaLine(Stamp("millis", ts, TRUE))
        start(ts) == [at(ts) EXCEPT !.exposure_start = Some(Cap(TRUE, TRUE, "L", 1, 100))]
        save(ts) == [at(ts) EXCEPT !.save_light = Some(Cap(TRUE, TRUE, "a.fits", 0, 0))]
    IN {LogFile(FALSE, <<>>),
        LogFile(TRUE, <<>>),
        LogFile(TRUE, <<start(1), save(2)>>),
        LogFile(TRUE, <<[at(1) EXCEPT !.dither_start = Some(TRUE)],
                        [at(1) EXCEPT !.dither_finish = Some(TRUE)],
                        start(2), save(2)>>),
        LogFile(TRUE, <<start(1), save(2),
                        [at(2) EXCEPT !.rms_alert = Some(Cap(TRUE, FALSE, "", 0, 0))]>>),
        LogFile(TRUE, <<NinaLine(Stamp("millis", 0, FALSE))>>)}

\* MainWindow._update_widgets, as far as the parsers go: correlate when both
\* are set, then hand both to the views
update_widgets(w, exclude, margin) ==
    LET correlated ==
            IF IsSome(w.phd2_parser) /\ IsSome(w.nina_parser)
            THEN Some(correlate_guiding_with_exposures(
                         Val(w.phd2_parser), Val(w.nina_parser),
                         IF exclude THEN Some(Val(w.nina_parser).dither_events)
                         ELSE None,
                         margin))
            ELSE w.nina_parser
    IN [w EXCEPT !.nina_parser = correlated,
                 !.shown_phd2 = w.phd2_parser,
                 !.shown_nina = correlated]

\* MainWindow._load_session: parse the guiding log if one is selected, then
\* the imaging log if one is selected, then update the views; the first
\* exception ends the try block and is reported in a message box
load_session(w, exclude, margin) ==
    LET phd2_called == IsSome(w.phd2_path)
        pr == Phd2Parse(Phd2Parser_init, Val(w.phd2_path))
        phd2_failed == phd2_called /\ pr.raised
        w1 == IF phd2_called
              THEN [w EXCEPT !.phd2_parser = Some(pr.p),
                             !.phd2_call = Some([file |-> Val(w.phd2_path),
                                                 raised |-> pr.raised])]
              ELSE w
        nina_called == ~phd2_failed /\ IsSome(w.nina_path)
        nr == NinaParse(NinaParser_init, Val(w.nina_path))
        nina_failed == nina_called /\ nr.raised
        w2 == IF nina_called
              THEN [w1 EXCEPT !.nina_parser = Some(nr.p),
                              !.nina_call = Some([file |-> Val(w.nina_path),
                                                  raised |-> nr.raised])]
              ELSE w1
        failed == phd2_failed \/ nina_failed
        w3 == IF failed THEN w2 ELSE update_widgets(w2, exclude, margin)
    IN [w3 EXCEPT !.load = Some([phd2_path |-> w.phd2_path,
                                 nina_path |-> w.nina_path,
                                 reported |-> failed,
                                 shown_phd2 |-> IF failed THEN None
                                                ELSE w3.shown_phd2,
                                 shown_nina |-> IF failed THEN None
                                                ELSE w3.shown_nina])]

\* MainWindow._browse_phd2: a guiding log is selected
BrowsePhd2 ==
    /\ \E file \in Phd2LogFiles :
          window' = [window EXCEPT !.phd2_path = Some(file)]
    /\ UNCHANGED <<phd2_vars, nina_vars, agg_vars, view_vars, finder_vars,
                   config_vars>>

\* MainWindow._browse_nina: an imaging log is selected
BrowseNina ==
    /\ \E file \in NinaLogFiles :
          window' = [window EXCEPT !.nina_path = Some(file)]
    /\ UNCHANGED <<phd2_vars, nina_vars, agg_vars, view_vars, finder_vars,
                   config_vars>>

\* the load button, enabled when at least one file is selected
LoadSession ==
    /\ IsSome(window.phd2_path) \/ IsSome(window.nina_path)
    /\ \E exclude \in BOOLEAN, margin \in Margins :
          window' = load_session(window, exclude, margin)
    /\ UNCHANGED <<phd2_vars, nina_vars, agg_vars, view_vars, finder_vars,
                   config_vars>>

InitLoad ==
    /\ Phd2New
    /\ NinaNew
    /\ AggNew
    /\ AppNew
    /\ phd2_vocab = "sessions"
    /\ nina_vocab = "dither"

NextLoad == BrowsePhd2 \/ BrowseNina \/ LoadSession

SpecLoad == InitLoad /\ [][NextLoad]_vars

---------------------------------------------------------------------------
(* One log parsed whole by a fresh parser *)

\* the files of at most n lines drawn from lines
LogsOf(lines, n) == UNION {[1..k -> lines] : k \in 0..n}

\* the first load of a window in which only the guiding log is selected
ParseGuidingLog ==
    /\ phd2_pc = "new" /\ nina_pc = "new"
    /\ \E lines \in LogsOf(Phd2LinesOf(phd2_vocab), MaxGuideLines) :
         LET r == Phd2Parse(phd2, LogFile(TRUE, lines))
         IN /\ phd2' = r.p
            /\ phd2_ref' = r.p
            /\ phd2_pc' = IF r.raised THEN "raised" ELSE "returned"
            /\ phd2_file' = lines
            /\ phd2_n' = Len(lines)
    /\ phd2_calls' = 1
    /\ UNCHANGED <<phd2_cur, phd2_vocab, nina_vars, agg_vars, app_vars>>

\* the first load of a window in which only the imaging log is selected
ParseImagingLog ==
    /\ phd2_pc = "new" /\ nina_pc = "new"
    /\ \E lines \in LogsOf(NinaLinesOf(nina_vocab), MaxLines) :
         LET r == NinaParse(nina, LogFile(TRUE, lines))
         IN /\ nina' = r.p
            /\ nina_ref' = r.p
            /\ nina_pc' = IF r.raised THEN "raised" ELSE "returned"
            /\ nina_file' = lines
            /\ nina_n' = Len(lines)
    /\ nina_calls' = 1
    /\ UNCHANGED <<nina_vocab, phd2_vars, agg_vars, app_vars>>

\* both parsers constructed; the logs carry the markers of every output list
InitLogs ==
    /\ Phd2New
    /\ NinaNew
    /\ AggNew
    /\ AppNew
    /\ phd2_vocab = "sessions"
    /\ nina_vocab = "lists"

NextLogs == ParseGuidingLog \/ ParseImagingLog

SpecLogs == InitLogs /\ [][NextLogs]_vars

---------------------------------------------------------------------------
(* Properties of the two scans *)

Last(s) == s[Len(s)]

\* strictly increasing maps of 1..n into 1..m
Increasing(n, m) ==
    {f \in [1..n -> 1..m] : \A i \in 1..n, j \in 1..n : i < j => f[i] < f[j]}

\* the outputs of a NINAParser
NinaOutputs(p) ==
    <<p.exposures, p.autofocus_runs, p.filter_changes, p.meridian_flips,
      p.rms_alerts, p.dither_events, p.target_name, p.session_start,
      p.session_end>>

\* the line is timestamped and is scanned
NinaTimed(line) ==
    IsSome(parse_timestamp(line)) /\ parse_timestamp(line) # BadTimestamp

\* the line is scanned and the pattern of the marker captures
NinaHas(line, c) == NinaTimed(line) /\ IsSome(c) /\ Val(c).match

\* C4: after parse(A) then parse(B) on one NINAParser, every output equals
\* what parse(B) leaves on a freshly constructed parser.
C4_ReparseEqualsFresh ==
    nina_pc = "returned" => NinaOutputs(nina) = NinaOutputs(nina_ref)

\* C5: after parse(A) then parse(B) on one PHD2Parser, the session list and
\* the log-start timestamp equal what parse(B) leaves on a freshly constructed
\* parser.
C5_ReparseEqualsFresh ==
    phd2_pc = "returned" =>
        /\ phd2.sessions = phd2_ref.sessions
        /\ phd2.log_date = phd2_ref.log_date

Phd2Begin(line) == line.kind = "Begins" /\ line.match /\ line.valid
Phd2End(line) == line.kind = "Ends" /\ line.match /\ line.valid

\* C6: every session in the output list has a set end time and was closed by
\* a 'Guiding Ends at' line of the file that follows its begin marker, each
\* end marker closing at most one session; with no end marker in the file the
\* list is empty.
C6_OnlyClosedSessions ==
    LET n == Len(phd2.sessions)
        m == Len(phd2_file)
    IN /\ \A i \in 1..n : IsSome(phd2.sessions[i].end_time)
       /\ \E e \in Increasing(n, m) :
            \A i \in 1..n :
               /\ Phd2End(phd2_file[e[i]])
               /\ phd2.sessions[i].end_time = Some(phd2_file[e[i]].t)
               /\ \E b \in 1..(e[i] - 1) :
                    /\ i > 1 => b > e[i - 1]
                    /\ Phd2Begin(phd2_file[b])
                    /\ phd2_file[b].t = phd2.sessions[i].start_time
       /\ (\A k \in 1..m : ~Phd2End(phd2_file[k])) => phd2.sessions = <<>>

\* a parse that returned on a file with a begin marker, a frame after it and
\* no end marker
C6_Witness ==
    /\ phd2_pc = "returned"
    /\ \E b \in 1..Len(phd2_file) :
         /\ Phd2Begin(phd2_file[b])
         /\ \E k \in (b + 1)..Len(phd2_file) :
              /\ phd2_file[k].kind = "Frame"
              /\ phd2_file[k].match /\ phd2_file[k].valid
    /\ \A k \in 1..Len(phd2_file) : phd2_file[k].kind # "Ends"
    /\ phd2.sessions = <<>>

\* C7: in a parse on a fresh NINAParser every DitherEvent has a set end time,
\* taken from a dither finish line that is or follows its start line, each
\* finish line closing at most one event and each start line opening at most
\* one; so there are no more events than start lines, and none when no
\* finish follows a start.
C7_OnlyClosedDithers ==
    nina_calls = 1 =>
        LET ev == nina.dither_events
            n == Len(ev)
            m == Len(nina_file)
            starts == {k \in 1..m : NinaTimed(nina_file[k])
                                    /\ IsSome(nina_file[k].dither_start)}
            finishes == {k \in 1..m : NinaTimed(nina_file[k])
                                      /\ IsSome(nina_file[k].dither_finish)}
        IN /\ \A i \in 1..n : IsSome(ev[i].end_time)
           /\ n <= Cardinality(starts)
           /\ \E f \in Increasing(n, m) :
                \A i \in 1..n :
                   /\ f[i] \in finishes
                   /\ ev[i].end_time = parse_timestamp(nina_file[f[i]])
                   /\ \E s \in starts :
                        /\ s <= f[i]
                        /\ i > 1 => s > f[i - 1]
                        /\ Some(ev[i].start_time) = parse_timestamp(nina_file[s])
           /\ (\A s \in starts : \A f \in finishes : f < s) => n = 0

\* a first parse that returned on start, finish, start: one event, and the
\* second start emitted nothing
C7_Witness ==
    /\ nina_calls = 1
    /\ nina_pc = "returned"
    /\ Len(nina_file) = 3
    /\ NinaTimed(nina_file[1]) /\ IsSome(nina_file[1].dither_start)
    /\ IsNone(nina_file[1].dither_finish)
    /\ NinaTimed(nina_file[2]) /\ IsSome(nina_file[2].dither_finish)
    /\ IsNone(nina_file[2].dither_start)
    /\ NinaTimed(nina_file[3]) /\ IsSome(nina_file[3].dither_start)
    /\ IsNone(nina_file[3].dither_finish)
    /\ Len(nina.dither_events) = 1

\* C8: a line of the scan changes the exposure list only by appending one
\* exposure, only when the line carries the LIGHT save marker and an exposure
\* opened by a start line is pending (from an earlier line or from this one,
\* a start line being one whose exposure time converts);
\* the appended exposure is the most recently started one, an earlier pending
\* one is dropped by a second start, and there are never more exposures than
\* save markers read.
C8_ExposureOnlyOnSave ==
    [][nina_n' = nina_n + 1 =>
        LET line == Last(nina_file')
            started == /\ NinaHas(line, line.exposure_start)
                       /\ Val(line.exposure_start).valid
            saved == NinaHas(line, line.save_light)
            saves == {k \in 1..Len(nina_file') :
                        NinaHas(nina_file'[k], nina_file'[k].save_light)}
        IN /\ Len(nina'.exposures) <= Cardinality(saves)
           /\ nina'.exposures # nina.exposures =>
                /\ saved
                /\ started \/ IsSome(nina.pending_exposure)
                /\ Len(nina'.exposures) = Len(nina.exposures) + 1
                /\ SubSeq(nina'.exposures, 1, Len(nina.exposures)) = nina.exposures
                /\ IsNone(nina'.pending_exposure)
                /\ IF started
                   THEN Last(nina'.exposures).timestamp = Val(parse_timestamp(line))
                   ELSE Last(nina'.exposures).timestamp
                           = Val(nina.pending_exposure).timestamp
           /\ (started /\ ~saved /\ nina_pc' = "scan") =>
                /\ nina'.exposures = nina.exposures
                /\ IsSome(nina'.pending_exposure)
                /\ Val(nina'.pending_exposure).timestamp = Val(parse_timestamp(line))
      ]_vars

\* start at one time, a second start at another time, then the save marker:
\* one exposure, the second
C8_Witness ==
    /\ nina_calls = 1
    /\ Len(nina_file) = 3
    /\ NinaHas(nina_file[1], nina_file[1].exposure_start)
    /\ NinaHas(nina_file[2], nina_file[2].exposure_start)
    /\ parse_timestamp(nina_file[1]) # parse_timestamp(nina_file[2])
    /\ IsNone(nina_file[1].save_light) /\ IsNone(nina_file[2].save_light)
    /\ NinaHas(nina_file[3], nina_file[3].save_light)
    /\ IsNone(nina_file[3].exposure_start)
    /\ Len(nina.exposures) = 1
    /\ Some(nina.exposures[1].timestamp) = parse_timestamp(nina_file[2])

\* the pier-side mentions among the lines of a file
PierMentions(file) ==
    {k \in 1..Len(file) : NinaHas(file[k], file[k].pier_side)}

\* C9: in a parse on a fresh NINAParser, the first pier-side mention appends
\* no MeridianFlip; a later mention appends exactly one, from the side of the
\* previous mention to its own, when the two differ and none when they are
\* equal; a line with no mention appends none.
C9_FlipOnlyOnChange ==
    [][(nina_calls = 1 /\ nina_n' = nina_n + 1) =>
        LET line == Last(nina_file')
            before == PierMentions(nina_file)
            prev == nina_file[CHOOSE k \in before : \A j \in before : j <= k]
            from == Val(prev.pier_side).s
            to == Val(line.pier_side).s
        IN IF NinaHas(line, line.pier_side) /\ before # {} /\ from # to
           THEN nina'.meridian_flips =
                   Append1(nina.meridian_flips, MeridianFlip(Val(parse_timestamp(line)), from, to))
           ELSE nina'.meridian_flips = nina.meridian_flips
      ]_vars

\* two mentions of one side, then a mention of the other: one flip
C9_Witness ==
    /\ nina_calls = 1
    /\ Len(nina_file) = 3
    /\ PierMentions(nina_file) = {1, 2, 3}
    /\ Val(nina_file[1].pier_side).s = Val(nina_file[2].pier_side).s
    /\ Val(nina_file[3].pier_side).s # Val(nina_file[2].pier_side).s
    /\ Len(nina.meridian_flips) = 1

---------------------------------------------------------------------------
(* Properties of the aggregation *)

\* ra_rms, dec_rms, total_rms and guiding_frames of every exposure
RmsFields(n) ==
    [k \in 1..Len(n.exposures) |->
        <<n.exposures[k].ra_rms, n.exposures[k].dec_rms,
          n.exposures[k].total_rms, n.exposures[k].guiding_frames>>]

\* <<session, frame>> of every guiding frame
FrameIndex(sessions) ==
    UNION {{<<i, j>> : j \in 1..Len(sessions[i].frames)} : i \in 1..Len(sessions)}

\* absolute time of a guiding frame: session start + elapsed seconds
AbsTime(sessions, ij) ==
    sessions[ij[1]].start_time + sessions[ij[1]].frames[ij[2]].time

\* the frame lies in a supplied dither interval widened by the margin
Excluded(t, dither_events, margin) ==
    /\ IsSome(dither_events)
    /\ \E k \in 1..Len(Val(dither_events)) :
         LET d == Val(dither_events)[k]
             end == IF IsSome(d.end_time) THEN Val(d.end_time) ELSE d.start_time
         IN d.start_time - margin <= t /\ t <= end + margin

\* the frames that qualify for an exposure under a dither list and a margin
Qualifying(sessions, e, dither_events, margin) ==
    {ij \in FrameIndex(sessions) :
        /\ e.timestamp <= AbsTime(sessions, ij)
        /\ AbsTime(sessions, ij) <= e.timestamp + e.exposure_time
        /\ ~Excluded(AbsTime(sessions, ij), dither_events, margin)}

RECURSIVE SumSqRa(_, _)
SumSqRa(sessions, S) ==
    IF S = {} THEN 0
    ELSE LET ij == CHOOSE x \in S : TRUE
             v == sessions[ij[1]].frames[ij[2]].ra_raw
         IN v * v + SumSqRa(sessions, S \ {ij})

RECURSIVE SumSqDec(_, _)
SumSqDec(sessions, S) ==
    IF S = {} THEN 0
    ELSE LET ij == CHOOSE x \in S : TRUE
             v == sessions[ij[1]].frames[ij[2]].dec_raw
         IN v * v + SumSqDec(sessions, S \ {ij})

\* C1: a call of correlate_guiding_with_exposures with the arguments of the
\* call before it leaves ra_rms, dec_rms, total_rms and guiding_frames of
\* every exposure as that call left them.
C1_CorrelateIdempotent ==
    [][(IsSome(corr_args) /\ corr_args' = corr_args) =>
          RmsFields(nina') = RmsFields(nina)]_vars

\* a repeated call with dither exclusion, on an exposure that has guiding
\* frames and one that has none
C1_Witness ==
    /\ corr_again
    /\ TruthyList(Val(corr_args).dither_events)
    /\ \E k \in 1..Len(nina.exposures) : nina.exposures[k].guiding_frames >= 2
    /\ \E k \in 1..Len(nina.exposures) : nina.exposures[k].guiding_frames = 0

\* C2: after any sequence of correlate calls, an exposure with no qualifying
\* frame under the arguments of the latest call has ra_rms, dec_rms and
\* total_rms unset.
C2_NoFramesNoRms ==
    IsSome(corr_args) =>
        \A k \in 1..Len(nina.exposures) :
           Qualifying(phd2.sessions, nina.exposures[k],
                      Val(corr_args).dither_events, Val(corr_args).margin) = {}
           => /\ IsNone(nina.exposures[k].ra_rms)
              /\ IsNone(nina.exposures[k].dec_rms)
              /\ IsNone(nina.exposures[k].total_rms)

\* C3: after a call with no dither exclusion, guiding_frames of every exposure
\* is the number of frames, over all sessions, with start <= t <= start +
\* duration, and the RMS fields are those of exactly these frames (unset when
\* there is none), scaled by the first nonzero pixel scale.
C3_WindowInclusive ==
    (IsSome(corr_args) /\ ~TruthyList(Val(corr_args).dither_events)) =>
        \A k \in 1..Len(nina.exposures) :
           LET e == nina.exposures[k]
               in == {ij \in FrameIndex(phd2.sessions) :
                         /\ e.timestamp <= AbsTime(phd2.sessions, ij)
                         /\ AbsTime(phd2.sessions, ij)
                               <= e.timestamp + e.exposure_time}
               n == Cardinality(in)
               scale == CorrPixelScale(phd2.sessions)
           IN /\ e.guiding_frames = n
              /\ IF n = 0
                 THEN IsNone(e.ra_rms) /\ IsNone(e.dec_rms) /\ IsNone(e.total_rms)
                 ELSE /\ e.ra_rms = Some(Frac(SumSqRa(phd2.sessions, in)
                                                * scale * scale, n))
                      /\ e.dec_rms = Some(Frac(SumSqDec(phd2.sessions, in)
                                                 * scale * scale, n))
                      /\ e.total_rms = Some(Frac((SumSqRa(phd2.sessions, in)
                                                    + SumSqDec(phd2.sessions, in))
                                                   * scale * scale, n))

\* an exposure with a frame at its start, a frame at its end and a frame of
\* the log after its end: two frames counted
C3_Witness ==
    /\ IsSome(corr_args) /\ IsNone(Val(corr_args).dither_events)
    /\ \E k \in 1..Len(nina.exposures) :
         LET e == nina.exposures[k]
             times == {AbsTime(phd2.sessions, ij) : ij \in FrameIndex(phd2.sessions)}
         IN /\ Cardinality(FrameIndex(phd2.sessions)) = 3
            /\ e.timestamp \in times
            /\ e.timestamp + e.exposure_time \in times
            /\ \E t \in times : t > e.timestamp + e.exposure_time
            /\ e.guiding_frames = 2

\* the buckets get_rms_over_time emitted for session si
BucketsOf(si) ==
    {b \in 1..Len(Val(rms_data)) : Val(rms_data)[b].session = si}

\* C10: for every session, interval and dither list, the member frames of
\* the emitted buckets are pairwise disjoint, their union is the frames of
\* the session that no dither interval (widened by the margin) excludes, and
\* no emitted bucket is empty; so the trailing partial bucket is emitted.
C10_BucketsPartitionFrames ==
    IsSome(rms_data) =>
        \A si \in 1..Len(phd2.sessions) :
           LET a == Val(rms_args)
               kept == {j \in 1..Len(phd2.sessions[si].frames) :
                          ~Excluded(AbsTime(phd2.sessions, <<si, j>>),
                                    a.dither_events, a.margin)}
               held(b) == SeqToSet(Val(rms_data)[b].members)
           IN /\ UNION {held(b) : b \in BucketsOf(si)} = kept
              /\ \A b \in BucketsOf(si) :
                   /\ Val(rms_data)[b].members # <<>>
                   /\ Cardinality(held(b)) = Len(Val(rms_data)[b].members)
              /\ \A b, c \in BucketsOf(si) : b # c => held(b) \cap held(c) = {}

\* a session of three frames: one excluded as dither, the other two in two
\* buckets, the second of them the trailing one
C10_Witness ==
    /\ IsSome(rms_data)
    /\ TruthyList(Val(rms_args).dither_events)
    /\ \E si \in 1..Len(phd2.sessions) :
         /\ Len(phd2.sessions[si].frames) = 3
         /\ Cardinality(BucketsOf(si)) = 2
         /\ \A b \in BucketsOf(si) : Len(Val(rms_data)[b].members) = 1

---------------------------------------------------------------------------
(* Properties of the views *)

\* C11: for the same guiding data, the frames get_overall_rms aggregates
\* with a dither list and a margin are among those it aggregates with
\* dither_events = None, and they are no more in number
C11_ExclusionNeverAddsFrames ==
    (IsSome(summary) /\ IsSome(Val(summary).filtered)) =>
        LET raw == Val(summary).raw.members
            filtered == Val(Val(summary).filtered).members
        IN /\ SeqToSet(filtered) \subseteq SeqToSet(raw)
           /\ Len(filtered) <= Len(raw)
           /\ Cardinality(SeqToSet(filtered)) = Len(filtered)

\* the summary was computed with exclusion on a list that excludes one frame
\* and keeps another
C11_Witness ==
    /\ IsSome(summary) /\ IsSome(Val(summary).filtered)
    /\ Val(Val(summary).filtered).members # <<>>
    /\ Len(Val(Val(summary).filtered).members) < Len(Val(summary).raw.members)

\* an RMS value, kept as the fraction of its square, is a real number >= 0
NonNegative(rms) == rms[1] >= 0 /\ rms[2] > 0

\* total squared equals ra squared plus dec squared, all three >= 0
InQuadrature(ra, dec, total) ==
    /\ NonNegative(ra) /\ NonNegative(dec) /\ NonNegative(total)
    /\ total[1] * ra[2] * dec[2] = total[2] * (ra[1] * dec[2] + dec[1] * ra[2])

---------------------------------------------------------------------------
(* Properties of the session discovery *)

\* the imaging logs of a date that the folder of the call holds: names of the
\* form YYYYMMDD-HHMMSS*.log whose digits are that date
NinaLogsOf(f, session_date) ==
    IF IsSome(FolderOnDisk(disk, f.nina_folder))
    THEN {file \in SeqToSet(Val(FolderOnDisk(disk, f.nina_folder))) :
             /\ file.glob_log /\ file.pattern = "nina"
             /\ file.ymd = session_date}
    ELSE {}

\* the guiding logs of a date that the folder of the call holds
Phd2LogsOf(f, session_date) ==
    IF IsSome(FolderOnDisk(disk, f.phd2_folder))
    THEN {file \in SeqToSet(Val(FolderOnDisk(disk, f.phd2_folder))) :
             /\ file.glob_phd2 /\ file.pattern = "phd2"
             /\ file.ymd = session_date}
    ELSE {}

\* the calendar dates the file names may encode
CalendarDates ==
    {file.ymd : file \in {x \in NinaFolderFiles \cup Phd2FolderFiles :
                             ValidDate(x.ymd)}}

\* the dates of a list of sessions
SessionDates(sessions) == {sessions[i].session_date : i \in 1..Len(sessions)}

\* the lists of the session are exactly the files of its date, each once
ExactLogs(f, session) ==
    /\ SeqToSet(session.nina_logs) = NinaLogsOf(f, session.session_date)
    /\ Len(session.nina_logs) = Cardinality(NinaLogsOf(f, session.session_date))
    /\ SeqToSet(session.phd2_logs) = Phd2LogsOf(f, session.session_date)
    /\ Len(session.phd2_logs) = Cardinality(Phd2LogsOf(f, session.session_date))

\* C13: scan returns a session for every calendar date that has a
\* pattern-matching file, its nina_logs and phd2_logs are exactly the files
\* of that date in the respective folder, has_both holds exactly when both
\* are non-empty, and get_matching_sessions returns exactly the sessions of
\* the dates that have files on both sides
C13_GroupedByDate ==
    IsSome(scan_out) =>
        LET f == Val(scan_out).finder
            out == Val(scan_out).sessions
            both(d) == NinaLogsOf(f, d) # {} /\ Phd2LogsOf(f, d) # {}
            either(d) == NinaLogsOf(f, d) # {} \/ Phd2LogsOf(f, d) # {}
        IN /\ \A i \in 1..Len(out) :
                /\ ExactLogs(f, out[i])
                /\ has_both(out[i]) <=> both(out[i].session_date)
           /\ Val(scan_out).call = "scan" =>
                SessionDates(out) = {d \in CalendarDates : either(d)}
           /\ Val(scan_out).call = "get_matching_sessions" =>
                SessionDates(out) = {d \in CalendarDates : both(d)}

\* get_matching_sessions returned the session of 2026-01-22 with a file on
\* each side while the disk holds other files too
C13_Witness ==
    /\ IsSome(scan_out)
    /\ Val(scan_out).call = "get_matching_sessions"
    /\ Len(Val(scan_out).sessions) = 1
    /\ Val(scan_out).sessions[1].session_date = <<2026, 1, 22>>
    /\ Len(Val(disk.nina_logs)) = MaxFiles /\ Len(Val(disk.phd2_logs)) = MaxFiles
    /\ \E i \in 1..MaxFiles : Val(disk.phd2_logs)[i].ymd # <<2026, 1, 22>>

\* C14: the returned list is strictly newest first: every session's date is
\* later than the date of each session after it, so no date appears twice
C14_NewestFirst ==
    IsSome(scan_out) =>
        LET out == Val(scan_out).sessions
        IN \A i \in 1..Len(out) : \A j \in 1..Len(out) :
              i < j => DateLess(out[j].session_date, out[i].session_date)

\* scan returned three dates although the folders yielded an older one first
C14_Witness ==
    /\ IsSome(scan_out)
    /\ Val(scan_out).call = "scan"
    /\ Len(Val(scan_out).sessions) = 3
    /\ IsSome(disk.nina_logs) /\ Len(Val(disk.nina_logs)) = 2
    /\ DateLess(Val(disk.nina_logs)[1].ymd, Val(disk.nina_logs)[2].ymd)

\* C15: when a folder of the finder is unset or not on disk, scan returns
\* sessions without any file on that side, and the files of the other side
\* are grouped by date all the same
C15_MissingFolderIsEmptySide ==
    (IsSome(scan_out) /\ Val(scan_out).call = "scan") =>
        LET f == Val(scan_out).finder
            out == Val(scan_out).sessions
        IN /\ IsNone(FolderOnDisk(disk, f.nina_folder)) =>
                /\ \A i \in 1..Len(out) : out[i].nina_logs = <<>>
                /\ SessionDates(out) =
                      {d \in CalendarDates : Phd2LogsOf(f, d) # {}}
                /\ \A i \in 1..Len(out) :
                      SeqToSet(out[i].phd2_logs) = Phd2LogsOf(f, out[i].session_date)
           /\ IsNone(FolderOnDisk(disk, f.phd2_folder)) =>
                /\ \A i \in 1..Len(out) : out[i].phd2_logs = <<>>
                /\ SessionDates(out) =
                      {d \in CalendarDates : NinaLogsOf(f, d) # {}}
                /\ \A i \in 1..Len(out) :
                      SeqToSet(out[i].nina_logs) = NinaLogsOf(f, out[i].session_date)

\* scan ran with the imaging folder set but not on disk and returned the
\* guiding logs of two dates
C15_Witness ==
    /\ IsSome(scan_out)
    /\ Val(scan_out).call = "scan"
    /\ IsSome(Val(scan_out).finder.nina_folder)
    /\ IsNone(disk.nina_logs)
    /\ Len(Val(scan_out).sessions) = 2

---------------------------------------------------------------------------
(* Properties of the recovery from malformed lines *)

\* a captured digit-and-dot run that float() does not accept
BadNumber(cap) == IsSome(cap) /\ Val(cap).match /\ ~Val(cap).valid

\* an imaging-log line with a marker whose numeric fragment does not
\* convert, or whose timestamp digits are no date and time
NinaMalformed(line) ==
    \/ parse_timestamp(line) = BadTimestamp
    \/ /\ IsSome(parse_timestamp(line))
       /\ \/ BadNumber(line.exposure_start)
          \/ BadNumber(line.star_detection)
          \/ BadNumber(line.af_broadcast)
          \/ BadNumber(line.rms_alert)

\* C16: in the imaging-log scan a line with a marker whose numeric fragment
\* or timestamp does not convert is skipped: parse does not raise on it and
\* goes on to the lines after it
C16_MalformedNumberIsSkipped ==
    (nina_file # <<>> /\ NinaMalformed(Last(nina_file))) =>
        nina_pc \in {"scan", "returned"}

\* C17: in the guiding-log scan a frame line inside an open session is
\* appended as a frame exactly when it has 18 fields and its numeric fields
\* convert; otherwise the line alone is dropped: parse does not raise, the
\* session stays open with the frames it had and nothing else changes
C17_BadFrameLineIsDropped ==
    [][(/\ phd2_pc = "scan"
        /\ Len(phd2_file') = Len(phd2_file) + 1
        /\ Last(phd2_file').kind = "Frame"
        /\ IsSome(phd2_cur))
       => LET line == Last(phd2_file')
          IN /\ phd2_pc' = "scan"
             /\ phd2' = phd2
             /\ IsSome(phd2_cur')
             /\ IF line.match /\ line.valid
                THEN phd2_cur' = Some([Val(phd2_cur) EXCEPT
                                         !.frames = Append1(@, line.frame)])
                ELSE phd2_cur' = phd2_cur]_vars

\* an open session took a frame after a frame line that did not convert and
\* one with too few fields
C17_Witness ==
    /\ phd2_pc = "scan"
    /\ IsSome(phd2_cur)
    /\ Len(Val(phd2_cur).frames) = 1
    /\ Len(phd2_file) >= 3
    /\ Last(phd2_file).kind = "Frame" /\ Last(phd2_file).valid
    /\ Last(phd2_file).match
    /\ \E i \in 1..Len(phd2_file) :
          /\ phd2_file[i].kind = "Frame"
          /\ ~(phd2_file[i].match /\ phd2_file[i].valid)

\* a guiding-log header line whose date digits are no date, or whose
\* pixel-scale value is no number
Phd2Malformed(line) ==
    /\ line.kind \in {"LogEnabled", "Begins", "Ends", "PixelScale"}
    /\ line.match
    /\ ~line.valid

\* C18: in the guiding-log scan a malformed header line is recovered at line
\* granularity: parse does not raise on it, the line produces no record and
\* the scan goes on
C18_MalformedHeaderIsSkipped ==
    (phd2_file # <<>> /\ Phd2Malformed(Last(phd2_file))) =>
        /\ phd2_pc \in {"scan", "returned"}
        /\ Len(phd2.sessions) <= Cardinality({i \in 1..Len(phd2_file) :
                                                 Phd2End(phd2_file[i])})

---------------------------------------------------------------------------
(* Properties of loading a session *)

\* C19: a parse call of either parser on a missing or unreadable file fails
\* with an error raised to the caller; it never returns normally
C19_MissingFileRaises ==
    /\ (IsSome(window.phd2_call) /\ ~Val(window.phd2_call).file.readable) =>
          Val(window.phd2_call).raised
    /\ (IsSome(window.nina_call) /\ ~Val(window.nina_call).file.readable) =>
          Val(window.nina_call).raised

\* the latest call of each parser was on a file that cannot be opened, and
\* each raised
C19_Witness ==
    /\ IsSome(window.phd2_call) /\ IsSome(window.nina_call)
    /\ ~Val(window.phd2_call).file.readable
    /\ ~Val(window.nina_call).file.readable
    /\ Val(window.phd2_call).raised /\ Val(window.nina_call).raised

\* the imaging data of two parsers is the same, whatever the correlation
\* wrote to the exposures
SameImagingData(a, b) ==
    /\ a.dither_events = b.dither_events
    /\ a.rms_alerts = b.rms_alerts
    /\ Len(a.exposures) = Len(b.exposures)
    /\ \A k \in 1..Len(a.exposures) :
          /\ a.exposures[k].timestamp = b.exposures[k].timestamp
          /\ a.exposures[k].saved_path = b.exposures[k].saved_path

\* C20: when _load_session has both files selected and parsing one of them
\* fails while the other parses, the failure is reported and the data of the
\* other file is handed to the views, whichever of the two fails
C20_OtherFileIsKept ==
    (/\ IsSome(window.load)
     /\ IsSome(Val(window.load).phd2_path)
     /\ IsSome(Val(window.load).nina_path)) =>
        LET l == Val(window.load)
            guiding == Phd2Parse(Phd2Parser_init, Val(l.phd2_path))
            imaging == NinaParse(NinaParser_init, Val(l.nina_path))
        IN /\ (guiding.raised /\ ~imaging.raised) =>
                /\ l.reported
                /\ IsSome(l.shown_nina)
                /\ SameImagingData(Val(l.shown_nina), imaging.p)
           /\ (~guiding.raised /\ imaging.raised) =>
                /\ l.reported
                /\ l.shown_phd2 = Some(guiding.p)

---------------------------------------------------------------------------
(* Properties of the pixel scale of the aggregates *)

\* the values of one field of the frames that went into an aggregate
MemberValues(sessions, members, field) ==
    [k \in 1..Len(members) |->
        sessions[members[k][1]].frames[members[k][2]][field]]

\* an aggregate of get_overall_rms is the RMS of its frames scaled by scale
ScaledBy(sessions, rms, scale) ==
    rms.members # <<>> =>
        /\ rms.ra_rms = Scaled(RmsPx(MemberValues(sessions, rms.members, "ra_raw")),
                               scale)
        /\ rms.dec_rms = Scaled(RmsPx(MemberValues(sessions, rms.members, "dec_raw")),
                                scale)

\* C21: get_overall_rms scales its aggregate by the pixel scale of the first
\* session, in list order, that declares a nonzero pixel scale (1.0 if none
\* does), also when later sessions declare another nonzero scale, and that
\* is the scale correlate_guiding_with_exposures uses for the same data.
C21_ScaleOfFirstSession ==
    IsSome(summary) =>
        LET sessions == phd2.sessions
            first == {i \in 1..Len(sessions) :
                         /\ sessions[i].pixel_scale # 0
                         /\ \A j \in 1..(i - 1) : sessions[j].pixel_scale = 0}
            scale == IF first = {} THEN 1
                     ELSE sessions[CHOOSE i \in first : TRUE].pixel_scale
        IN /\ scale = CorrPixelScale(sessions)
           /\ ScaledBy(sessions, Val(summary).raw, scale)
           /\ IsSome(Val(summary).filtered) =>
                  ScaledBy(sessions, Val(Val(summary).filtered), scale)

---------------------------------------------------------------------------
(* Properties of the timestamps of the imaging log *)

\* the least and the greatest of a non-empty set of instants
Earliest(ts) == CHOOSE t \in ts : \A u \in ts : t <= u
Latest(ts) == CHOOSE t \in ts : \A u \in ts : u <= t

\* C22: after NINAParser.parse on a fresh parser, session_start is the
\* minimum and session_end the maximum of the timestamps of all successfully
\* timestamped lines, in whatever order the lines occur in the file.
C22_BoundsAreMinMax ==
    (nina_calls = 1 /\ nina_pc = "returned") =>
        LET ts == {Val(parse_timestamp(nina_file[k])) :
                      k \in {j \in 1..Len(nina_file) : NinaTimed(nina_file[j])}}
        IN IF ts = {}
           THEN IsNone(nina.session_start) /\ IsNone(nina.session_end)
           ELSE /\ nina.session_start = Some(Earliest(ts))
                /\ nina.session_end = Some(Latest(ts))

\* the line just read by a step of the scan
LineRead == Last(nina_file')

\* C23: a line that begins with a second-precision timestamp (no fractional
\* part) is recognized as timestamped: the step that reads it updates the
\* session bounds and processes its markers exactly as for the same line
\* with a millisecond-precision timestamp of that instant.
C23_SecondPrecisionIsTimestamped ==
    [][(/\ Len(nina_file') = Len(nina_file) + 1
        /\ LineRead.stamp.form = "seconds"
        /\ LineRead.stamp.valid) =>
           /\ nina' = parse_line(nina, [LineRead EXCEPT !.stamp.form = "millis"]).p
           /\ nina'.session_end = Some(LineRead.stamp.t)
      ]_vars

\* C28: a line that does not begin with a recognized timestamp changes
\* nothing in the NINAParser, also when it contains marker substrings: the
\* output lists, the target name, the session bounds, the pending
\* accumulators and the rolling values are as before the line, and the scan
\* goes on.
C28_UnstampedLineChangesNothing ==
    [][(/\ Len(nina_file') = Len(nina_file) + 1
        /\ LineRead.stamp.form = "none") =>
           /\ nina' = nina
           /\ nina_pc' = "scan"
      ]_vars

\* a dither start at a timestamp, then lines without a timestamp that carry
\* the finish marker and the target marker: the dither is still pending, no
\* event was emitted and no target was set
C28_Witness ==
    /\ nina_calls = 1
    /\ nina_pc = "returned"
    /\ Len(nina_file) = 3
    /\ NinaTimed(nina_file[1]) /\ IsSome(nina_file[1].dither_start)
    /\ nina_file[2].stamp.form = "none" /\ IsSome(nina_file[2].dither_finish)
    /\ nina_file[3].stamp.form = "none" /\ IsSome(nina_file[3].target)
    /\ IsSome(nina.pending_dither)
    /\ nina.dither_events = <<>>
    /\ nina.target_name = ""
    /\ nina.session_end = parse_timestamp(nina_file[1])

---------------------------------------------------------------------------
(* Properties of the persisted settings *)

\* a settings file that is corrupted: unreadable bytes, no JSON, or JSON
\* that is not an object of settings
Corrupted(file) ==
    file.kind \in {"binary", "truncated", "array", "scalar", "string"}

\* C24: constructing or loading the Config when the persisted settings file
\* is corrupted never raises, and the configuration then holds the defaults
\* (dither margin 3.0, dither exclusion enabled, granularity 1 minute, no
\* folders), until a setter is used.
C24_CorruptedFileGivesDefaults ==
    (IsSome(config) /\ Corrupted(Val(config).read)) =>
        /\ Val(config).raised = ""
        /\ (config_file = Val(config).read) =>
              /\ Val(config).settings.dither_margin = 3
              /\ Val(config).settings.exclude_dither
              /\ Val(config).settings.granularity_minutes = 1
              /\ IsNone(Val(config).settings.nina_folder)
              /\ IsNone(Val(config).settings.phd2_folder)

---------------------------------------------------------------------------
(* Properties of the session markers of the guiding log *)

\* the frames of the frame lines strictly between lines b and e that
\* _parse_frame accepts, in file order
FrameLinesBetween(file, b, e) ==
    LET lines == SelectSeq(SubSeq(file, b + 1, e - 1),
                           LAMBDA l : l.kind = "Frame" /\ l.match /\ l.valid)
    IN [k \in 1..Len(lines) |-> lines[k].frame]

\* the begin line whose session is open after line k: the latest begin line
\* up to k, unless an end line follows it up to k; 0 when no session is open
OpenBegin(file, k) ==
    LET begins == {b \in 1..k : Phd2Begin(file[b])}
    IN IF begins = {} THEN 0
       ELSE IF \E e \in (Latest(begins) + 1)..k : Phd2End(file[e]) THEN 0
       ELSE Latest(begins)

\* the end lines read while a session is open, in file order
ClosingEnds(file) ==
    LET ends == {e \in 1..Len(file) : Phd2End(file[e]) /\ OpenBegin(file, e - 1) # 0}
    IN SelectSeq([k \in 1..Len(file) |-> k], LAMBDA k : k \in ends)

\* C25: a valid 'Guiding Begins at' line seen while a session is open
\* replaces the open session: the output holds one session per end line read
\* while a session is open, which starts at the latest begin line before
\* that end line and holds the frames read after that begin line only; the
\* replaced session and the frames appended to it appear in no output
\* session.
C25_BeginReplacesOpenSession ==
    LET ends == ClosingEnds(phd2_file)
    IN /\ Len(phd2.sessions) = Len(ends)
       /\ \A i \in 1..Len(ends) :
             LET e == ends[i]
                 b == OpenBegin(phd2_file, e - 1)
             IN /\ phd2.sessions[i].start_time = phd2_file[b].t
                /\ phd2.sessions[i].end_time = Some(phd2_file[e].t)
                /\ phd2.sessions[i].frames = FrameLinesBetween(phd2_file, b, e)

\* begin, a frame, a second begin at another time, end: one session, that of
\* the second begin, without the frame
C25_Witness ==
    /\ phd2_pc = "returned"
    /\ Len(phd2_file) = 4
    /\ Phd2Begin(phd2_file[1])
    /\ phd2_file[2].kind = "Frame" /\ phd2_file[2].match /\ phd2_file[2].valid
    /\ Phd2Begin(phd2_file[3])
    /\ phd2_file[3].t # phd2_file[1].t
    /\ Phd2End(phd2_file[4])
    /\ Len(phd2.sessions) = 1
    /\ phd2.sessions[1].start_time = phd2_file[3].t
    /\ phd2.sessions[1].frames = <<>>

\* every frame of an output session was read between the begin line and the
\* end line of that session
FramesWithinMarkers(p, file) ==
    \A i \in 1..Len(p.sessions) :
       \E b \in 1..Len(file), e \in 1..Len(file) :
          /\ b < e
          /\ Phd2Begin(file[b]) /\ file[b].t = p.sessions[i].start_time
          /\ Phd2End(file[e]) /\ Some(file[e].t) = p.sessions[i].end_time
          /\ p.sessions[i].frames = FrameLinesBetween(file, b, e)

\* C30: a 'Guiding Ends at' line read while no session is open changes
\* nothing (no session is emitted, none becomes open, parse does not raise),
\* a frame or metadata line read while no session is open is attached to no
\* session, and every frame of an output session lies between that
\* session's begin line and its end line.
C30_MarkersNeedOpenSession ==
    [][(Len(phd2_file') = Len(phd2_file) + 1) =>
          /\ (/\ IsNone(phd2_cur)
              /\ Last(phd2_file').kind
                    \in {"Ends", "Frame", "Profile", "PixelScale", "Pointing"}) =>
                 /\ phd2' = phd2
                 /\ IsNone(phd2_cur')
                 /\ phd2_pc' = "scan"
          /\ FramesWithinMarkers(phd2', phd2_file')
      ]_vars

\* a frame line and an end line before any begin line, then begin and end:
\* one session without frames
C30_Witness ==
    /\ phd2_pc = "returned"
    /\ Len(phd2_file) = 4
    /\ phd2_file[1].kind = "Frame" /\ phd2_file[1].match /\ phd2_file[1].valid
    /\ Phd2End(phd2_file[2])
    /\ Phd2Begin(phd2_file[3])
    /\ Phd2End(phd2_file[4])
    /\ Len(phd2.sessions) = 1
    /\ phd2.sessions[1].frames = <<>>
    /\ phd2.sessions[1].end_time = Some(phd2_file[4].t)

---------------------------------------------------------------------------
(* Properties of the exposure fields the correlation writes *)

\* the exposure with the four fields of the correlation as the parser
\* leaves them
Uncorrelated(exposure) ==
    [exposure EXCEPT !.ra_rms = None, !.dec_rms = None, !.total_rms = None,
                     !.guiding_frames = 0]

\* C26: ra_rms, dec_rms, total_rms and guiding_frames of an exposure are
\* written only by correlate_guiding_with_exposures: after every step of
\* NINAParser.parse (its return included) every exposure has the three RMS
\* fields unset and guiding_frames 0, and a correlate call changes no other
\* exposure field, adds, removes and reorders no exposure, changes nothing
\* else in the NINAParser and changes no guiding session or frame.
C26_RmsWrittenOnlyByCorrelate ==
    [][IF nina_pc = "returned" /\ nina_pc' = "returned"
       THEN /\ Len(nina'.exposures) = Len(nina.exposures)
            /\ \A k \in 1..Len(nina.exposures) :
                  Uncorrelated(nina'.exposures[k]) = Uncorrelated(nina.exposures[k])
            /\ [nina' EXCEPT !.exposures = <<>>] = [nina EXCEPT !.exposures = <<>>]
            /\ phd2' = phd2
       ELSE \A k \in 1..Len(nina'.exposures) :
               nina'.exposures[k] = Uncorrelated(nina'.exposures[k])
      ]_vars

\* a second parse of the imaging log returned and was correlated: its
\* exposure has the HFR the parser stored and the RMS of two guiding frames
C26_Witness ==
    /\ nina_calls = 2
    /\ nina_pc = "returned"
    /\ IsSome(corr_args)
    /\ Len(nina.exposures) = 1
    /\ IsSome(nina.exposures[1].hfr)
    /\ IsSome(nina.exposures[1].total_rms)
    /\ nina.exposures[1].guiding_frames = 2

---------------------------------------------------------------------------
(* Properties of the order of the output lists *)

\* a sequence of instants that never goes back
NonDecreasing(ts) == \A i \in 1..(Len(ts) - 1) : ts[i] <= ts[i + 1]

\* the instants of one field of the records of a list, in list order
InstantsOf(list, field) == [k \in 1..Len(list) |-> list[k][field]]

\* the timestamps of the timestamped lines of a guiding log, in file order
Phd2LineTimes(file) ==
    InstantsOf(SelectSeq(file, LAMBDA l : l.kind \in Phd2TimedKinds
                                          /\ l.match /\ l.valid), "t")

\* the timestamps of the timestamped lines of an imaging log, in file order
NinaLineTimes(file) ==
    LET timed == SelectSeq(file, NinaTimed)
    IN [k \in 1..Len(timed) |-> Val(parse_timestamp(timed[k]))]

\* C27: when the timestamps of the lines are non-decreasing in file order,
\* after a single parse on a fresh parser each output list is non-decreasing
\* in time: the guiding sessions by start time, the exposures, autofocus
\* runs, filter changes, meridian flips and RMS alerts by timestamp, the
\* dither events by start time.
C27_ListsAreChronological ==
    /\ (phd2_pc = "returned" /\ phd2_calls = 1
        /\ NonDecreasing(Phd2LineTimes(phd2_file))) =>
           NonDecreasing(InstantsOf(phd2.sessions, "start_time"))
    /\ (nina_pc = "returned" /\ nina_calls = 1
        /\ NonDecreasing(NinaLineTimes(nina_file))) =>
           /\ NonDecreasing(InstantsOf(nina.exposures, "timestamp"))
           /\ NonDecreasing(InstantsOf(nina.autofocus_runs, "timestamp"))
           /\ NonDecreasing(InstantsOf(nina.filter_changes, "timestamp"))
           /\ NonDecreasing(InstantsOf(nina.meridian_flips, "timestamp"))
           /\ NonDecreasing(InstantsOf(nina.rms_alerts, "timestamp"))
           /\ NonDecreasing(InstantsOf(nina.dither_events, "start_time"))

\* an imaging log in time order that gives two filter changes at different
\* times and an exposure started before it was saved
C27_Witness ==
    /\ nina_pc = "returned" /\ nina_calls = 1
    /\ Len(nina_file) = 3
    /\ NonDecreasing(NinaLineTimes(nina_file))
    /\ Len(nina.filter_changes) = 2
    /\ nina.filter_changes[1].timestamp < nina.filter_changes[2].timestamp
    /\ Len(nina.exposures) = 1

---------------------------------------------------------------------------
(* Properties of the dither exclusion across the three aggregations *)

\* the frames <<session, frame>> held by the buckets of get_rms_over_time
Bucketed(data) ==
    UNION {{<<data[b].session, data[b].members[m]>> : m \in 1..Len(data[b].members)}
           : b \in 1..Len(data)}

\* C29: a guiding frame with absolute time t is excluded as dither if and
\* only if some supplied dither interval has start - margin <= t <= (end if
\* set, else start) + margin, both bounds inclusive, and get_rms_over_time,
\* get_overall_rms and correlate_guiding_with_exposures give that same
\* verdict for the same frame, dither list and margin: the buckets and the
\* overall aggregate hold exactly the frames not excluded, and every
\* exposure counts exactly the frames of its window not excluded.
C29_SameExclusionVerdict ==
    (IsSome(rms_data) /\ IsSome(summary) /\ IsSome(corr_args)) =>
        LET a == Val(corr_args)
            sessions == phd2.sessions
            excluded(ij) == Excluded(AbsTime(sessions, ij), a.dither_events, a.margin)
            overall == IF IsSome(Val(summary).filtered)
                       THEN Val(Val(summary).filtered).members
                       ELSE Val(summary).raw.members
        IN /\ Val(rms_args).dither_events = a.dither_events
           /\ Val(rms_args).margin = a.margin
           /\ \A ij \in FrameIndex(sessions) :
                 /\ ij \in Bucketed(Val(rms_data)) <=> ~excluded(ij)
                 /\ ij \in SeqToSet(overall) <=> ~excluded(ij)
           /\ \A k \in 1..Len(nina.exposures) :
                 nina.exposures[k].guiding_frames
                    = Cardinality(Qualifying(sessions, nina.exposures[k],
                                             a.dither_events, a.margin))

\* three frames at the start, inside and at the end of the widened dither
\* interval [2, 4] are excluded by all three, and both exposures, whose
\* windows are [2, 3] and [3, 5], count none
C29_Witness ==
    /\ IsSome(rms_data) /\ IsSome(summary) /\ IsSome(corr_args)
    /\ Val(corr_args).dither_events = Some(<<ClosedDither(3, 3)>>)
    /\ Val(corr_args).margin = 1
    /\ {AbsTime(phd2.sessions, ij) : ij \in FrameIndex(phd2.sessions)} = {2, 3, 4}
    /\ Val(rms_data) = <<>>
    /\ Val(Val(summary).filtered).members = <<>>
    /\ \A k \in 1..Len(nina.exposures) : nina.exposures[k].guiding_frames = 0

---------------------------------------------------------------------------
(* Properties of the autofocus runs of the imaging log *)

\* the lines of a file whose marker pattern captures
LinesWith(file, marker) ==
    {k \in 1..Len(file) : NinaHas(file[k], file[k][marker])}

\* C31: a line of the scan changes autofocus_runs only by appending one
\* run, only when the line is an 'AutoFocus completed' line carrying a final
\* position and a run opened by an autofocus start line is pending (from an
\* earlier line or from this one); a run that is started and not completed
\* is replaced by the next start and never appears, there are never more
\* runs than completion lines, and an initial-position, trigger or
\* temperature line leaves every emitted run as it is.
C31_RunOnlyOnCompletion ==
    [][nina_n' = nina_n + 1 =>
        LET line == Last(nina_file')
            ts == Val(parse_timestamp(line))
            started == NinaTimed(line) /\ IsSome(line.af_start)
            completed == NinaHas(line, line.af_completed)
            runs == nina.autofocus_runs
        IN /\ Len(nina'.autofocus_runs)
                 <= Cardinality(LinesWith(nina_file', "af_completed"))
           /\ IF completed /\ (started \/ IsSome(nina.pending_af))
              THEN /\ Len(nina'.autofocus_runs) = Len(runs) + 1
                   /\ SubSeq(nina'.autofocus_runs, 1, Len(runs)) = runs
                   /\ IsNone(nina'.pending_af)
                   /\ Last(nina'.autofocus_runs).final_position
                         = Val(line.af_completed).n
                   /\ Last(nina'.autofocus_runs).timestamp
                         = IF started THEN ts ELSE Val(nina.pending_af).timestamp
              ELSE nina'.autofocus_runs = runs
           /\ (started /\ ~completed) =>
                 nina'.pending_af = Some(AutofocusRun(ts, nina.current_filter))
      ]_vars

\* a start, a second start at another time, then the completion: one run,
\* that of the second start
C31_Witness ==
    /\ nina_calls = 1
    /\ Len(nina_file) = 3
    /\ NinaTimed(nina_file[1]) /\ IsSome(nina_file[1].af_start)
    /\ IsNone(nina_file[1].af_completed)
    /\ NinaTimed(nina_file[2]) /\ IsSome(nina_file[2].af_start)
    /\ IsNone(nina_file[2].af_completed)
    /\ parse_timestamp(nina_file[1]) # parse_timestamp(nina_file[2])
    /\ NinaHas(nina_file[3], nina_file[3].af_completed)
    /\ IsNone(nina_file[3].af_start)
    /\ Len(nina.autofocus_runs) = 1
    /\ Some(nina.autofocus_runs[1].timestamp) = parse_timestamp(nina_file[2])

---------------------------------------------------------------------------
(* Properties of the rolling values of the imaging log *)

\* the filter a line names: that of its exposure start when it names one,
\* else that of its filter change, "" when it has neither
FilterNamed(line) ==
    IF NinaHas(line, line.exposure_start) /\ Val(line.exposure_start).s # ""
    THEN Val(line.exposure_start).s
    ELSE IF NinaHas(line, line.filter_move) THEN Val(line.filter_move).s
    ELSE ""

\* the filter of the most recent line of the file that names one
FilterAfter(file) ==
    LET naming == {k \in 1..Len(file) : FilterNamed(file[k]) # ""}
    IN IF naming = {} THEN ""
       ELSE FilterNamed(file[CHOOSE k \in naming : \A j \in naming : j <= k])

\* C32: in a parse on a fresh NINAParser every matched filter-change line
\* appends one FilterChange and sets the current filter; an exposure whose
\* start line has an empty filter field gets the current filter at that
\* point (of the most recent filter change or of a more recent exposure line
\* that named a filter, "" when there is none), an exposure whose start line
\* names a filter keeps that name, and the save marker emits the exposure
\* with the filter it was started with.
C32_FilterOfExposure ==
    [][(nina_calls' = 1 /\ nina_n' = nina_n + 1) =>
        LET line == Last(nina_file')
            ts == Val(parse_timestamp(line))
            moved == NinaHas(line, line.filter_move)
            started == NinaHas(line, line.exposure_start)
            saved == NinaHas(line, line.save_light)
            named == Val(line.exposure_start).s
            emitted == nina'.exposures # nina.exposures
        IN /\ nina'.filter_changes =
                 IF moved
                 THEN Append1(nina.filter_changes,
                              FilterChange(ts, Val(line.filter_move).s,
                                           Val(line.filter_move).n))
                 ELSE nina.filter_changes
           /\ nina'.current_filter = FilterAfter(nina_file')
           /\ (moved /\ ~started) => nina'.current_filter = Val(line.filter_move).s
           /\ started =>
                 LET e == IF saved THEN Last(nina'.exposures)
                          ELSE Val(nina'.pending_exposure)
                 IN /\ saved => emitted
                    /\ e.timestamp = ts
                    /\ e.filter_name = IF named # "" THEN named
                                       ELSE IF moved THEN Val(line.filter_move).s
                                       ELSE FilterAfter(nina_file)
           /\ (emitted /\ ~started) =>
                 Last(nina'.exposures).filter_name
                    = Val(nina.pending_exposure).filter_name
      ]_vars

\* a filter change to R, an exposure line naming L, then an exposure line
\* with an empty filter field that is saved: the exposure has filter L
C32_Witness ==
    /\ nina_calls = 1
    /\ Len(nina_file) = 3
    /\ NinaHas(nina_file[1], nina_file[1].filter_move)
    /\ Val(nina_file[1].filter_move).s = "R"
    /\ NinaHas(nina_file[2], nina_file[2].exposure_start)
    /\ Val(nina_file[2].exposure_start).s = "L"
    /\ NinaHas(nina_file[3], nina_file[3].exposure_start)
    /\ Val(nina_file[3].exposure_start).s = ""
    /\ NinaHas(nina_file[3], nina_file[3].save_light)
    /\ Len(nina.filter_changes) = 1
    /\ Len(nina.exposures) = 1
    /\ nina.exposures[1].filter_name = "L"
    /\ Some(nina.exposures[1].timestamp) = parse_timestamp(nina_file[3])

\* C33: in a parse on a fresh NINAParser, the exposure a LIGHT save marker
\* emits has as hfr and stars_detected the HFR and the star count of the
\* most recent star-detection line scanned before the save marker, whatever
\* those values are (0 included), and has them unset only when no
\* star-detection line was scanned.
C33_HfrOfLatestDetection ==
    [][(nina_calls' = 1 /\ nina_n' = nina_n + 1
        /\ nina'.exposures # nina.exposures) =>
        LET stars == LinesWith(nina_file, "star_detection")
            latest == CHOOSE k \in stars : \A j \in stars : j <= k
            e == Last(nina'.exposures)
        IN IF stars = {}
           THEN IsNone(e.hfr) /\ IsNone(e.stars_detected)
           ELSE /\ e.hfr = Some(Val(nina_file[latest].star_detection).n)
                /\ e.stars_detected = Some(Val(nina_file[latest].star_detection).m)
      ]_vars

---------------------------------------------------------------------------
(* Properties of a parse call that raises *)

\* the lists NINAParser.parse fills
NinaEventLists(p) ==
    <<p.exposures, p.autofocus_runs, p.filter_changes, p.meridian_flips,
      p.rms_alerts>>

\* C35: when a parse call raises after some lines were scanned, the outputs
\* of the parser hold no record accumulated from those lines: the session
\* list of a PHD2Parser and the event lists of a NINAParser are empty.
C35_FailedParseExposesNothing ==
    /\ phd2_pc = "raised" => phd2.sessions = <<>>
    /\ nina_pc = "raised" =>
          NinaEventLists(nina) = NinaEventLists(NinaParser_init)

---------------------------------------------------------------------------
(* Properties of the three granularities of the RMS aggregation *)

\* the views hold the three aggregations of one session, computed with no
\* dither exclusion
OneSessionShown ==
    /\ IsSome(rms_data) /\ IsSome(summary) /\ IsSome(sessions_table)
    /\ Len(phd2.sessions) = 1
    /\ ~TruthyList(Val(rms_args).dither_events)

\* elapsed times of the frames of the session
ElapsedOf(session) ==
    {session.frames[k].time : k \in 1..Len(session.frames)}

\* one bucket, equal to the row of the session and to the overall
\* aggregate, and equal to every exposure whose window holds all the frames
GranularitiesAgree ==
    LET session == phd2.sessions[1]
        row == Val(sessions_table)[1]
        overall == Val(summary).raw
        buckets == Val(rms_data)
        within(e) == \A t \in ElapsedOf(session) :
                        /\ e.timestamp <= session.start_time + t
                        /\ session.start_time + t <= e.timestamp + e.exposure_time
    IN /\ Len(buckets) = 1
       /\ <<buckets[1].ra_rms, buckets[1].dec_rms, buckets[1].total_rms>>
             = <<row.ra_rms, row.dec_rms, row.total_rms>>
       /\ <<overall.ra_rms, overall.dec_rms, overall.total_rms>>
             = <<row.ra_rms, row.dec_rms, row.total_rms>>
       /\ row = [ra_rms |-> SessionRaRms(session), dec_rms |-> SessionDecRms(session),
                 total_rms |-> SessionTotalRms(session),
                 frames |-> Len(session.frames)]
       /\ \A k \in 1..Len(nina.exposures) :
             within(nina.exposures[k]) =>
                <<nina.exposures[k].ra_rms, nina.exposures[k].dec_rms,
                  nina.exposures[k].total_rms>>
                   = <<Some(row.ra_rms), Some(row.dec_rms), Some(row.total_rms)>>

\* C36: for guiding data of one session with frames, with no dither exclusion and a
\* bucket interval longer than the span of the session's frames (the time
\* from its earliest to its latest frame), get_rms_over_time emits exactly
\* one bucket whose values equal the session's ra_rms, dec_rms, total_rms
\* and the tuple of get_overall_rms, and an exposure whose window contains
\* all the frames gets the same values from correlate, for a nonzero and
\* for an unset pixel scale.
C36_GranularitiesAgree ==
    (/\ OneSessionShown
     /\ phd2.sessions[1].frames # <<>>
     /\ \A a \in ElapsedOf(phd2.sessions[1]) : \A b \in ElapsedOf(phd2.sessions[1]) :
           a - b < Val(rms_args).interval)
       => GranularitiesAgree

\* C36 as amended: the same for one session that has at least one frame and
\* a bucket interval longer than the elapsed time of every frame, counted
\* from the start of the session.
C36_GranularitiesAgreeFromStart ==
    (/\ OneSessionShown
     /\ phd2.sessions[1].frames # <<>>
     /\ \A t \in ElapsedOf(phd2.sessions[1]) : t < Val(rms_args).interval)
       => GranularitiesAgree

\* a session with pixel scale 2 and frames 0 and 1 seconds after its start,
\* buckets of 2 seconds, and an exposure whose window holds both frames
C36_Witness ==
    /\ OneSessionShown
    /\ phd2.sessions[1].pixel_scale = 2
    /\ ElapsedOf(phd2.sessions[1]) = {0, 1}
    /\ Val(rms_args).interval = 2
    /\ Len(Val(rms_data)) = 1
    /\ Val(rms_data)[1].total_rms[1] > 0
    /\ \E k \in 1..Len(nina.exposures) :
          /\ nina.exposures[k].guiding_frames = Len(phd2.sessions[1].frames)
          /\ nina.exposures[k].total_rms = Some(Val(rms_data)[1].total_rms)

---------------------------------------------------------------------------
(* Properties of the bucket windows of get_rms_over_time *)

\* the frames of session si are in non-decreasing elapsed time
InOrder(si) ==
    NonDecreasing([k \in 1..Len(phd2.sessions[si].frames) |->
                      phd2.sessions[si].frames[k].time])

\* the buckets of session si hold their members within one interval from
\* their start, every bucket but the first starts at its first member, the
\* first starts at the session start when early holds and at its first
\* member otherwise, and consecutive starts are an interval apart or more
BucketWindows(si, early) ==
    LET interval == Val(rms_args).interval
        data == Val(rms_data)
        first == CHOOSE b \in BucketsOf(si) : \A c \in BucketsOf(si) : b <= c
        at(b, k) == AbsTime(phd2.sessions, <<si, data[b].members[k]>>)
    IN /\ \A b \in BucketsOf(si) :
             /\ \A k \in 1..Len(data[b].members) :
                   /\ data[b].timestamp <= at(b, k)
                   /\ at(b, k) < data[b].timestamp + interval
             /\ data[b].timestamp =
                   IF b = first /\ early THEN phd2.sessions[si].start_time
                   ELSE at(b, 1)
       /\ \A b \in BucketsOf(si) : \A c \in BucketsOf(si) :
             b < c => data[c].timestamp - data[b].timestamp >= interval

\* C37: in get_rms_over_time with a positive interval and frames in
\* non-decreasing elapsed time, every member of a bucket has a time t with
\* bucket_start <= t < bucket_start + interval, the first bucket of a
\* session that has a frame earlier than the interval starts at the session
\* start and every other bucket at the time of its first member, and the
\* starts of consecutive buckets of a session differ by at least the
\* interval.
C37_BucketWindows ==
    IsSome(rms_data) =>
        \A si \in 1..Len(phd2.sessions) :
           InOrder(si) =>
              BucketWindows(si,
                 \E j \in 1..Len(phd2.sessions[si].frames) :
                    phd2.sessions[si].frames[j].time < Val(rms_args).interval)

\* C37 as amended: the same, the first bucket starting at the session start
\* when the session has a frame earlier than the interval that is not
\* excluded as dither.
C37_BucketWindowsOfKeptFrames ==
    IsSome(rms_data) =>
        \A si \in 1..Len(phd2.sessions) :
           InOrder(si) =>
              BucketWindows(si,
                 \E j \in 1..Len(phd2.sessions[si].frames) :
                    /\ phd2.sessions[si].frames[j].time < Val(rms_args).interval
                    /\ ~Excluded(AbsTime(phd2.sessions, <<si, j>>),
                                 Val(rms_args).dither_events,
                                 Val(rms_args).margin))

\* a session with frames 0, 2 and 2 seconds after its start and buckets of
\* 2 seconds: the first bucket starts at the session start, the second holds
\* two frames and starts at their time; and a session whose only early
\* frame is excluded as dither: its first bucket starts at its first member
C37_Witness ==
    /\ IsSome(rms_data)
    /\ Val(rms_args).interval = 2
    /\ Len(phd2.sessions) = 2
    /\ InOrder(1) /\ InOrder(2)
    /\ Cardinality(BucketsOf(1)) = 2
    /\ Val(rms_data)[1].timestamp = phd2.sessions[1].start_time
    /\ Val(rms_data)[2].timestamp = phd2.sessions[1].start_time + 2
    /\ \E b \in BucketsOf(2) :
          Val(rms_data)[b].timestamp > phd2.sessions[2].start_time

---------------------------------------------------------------------------
(* Properties of the chain of meridian flips *)

\* C38: during and after a single parse on a fresh NINAParser, every
\* MeridianFlip has from_pier_side different from to_pier_side, and of every
\* two consecutive flips the later one starts from the side the earlier one
\* went to.
C38_FlipsChain ==
    nina_calls = 1 =>
        LET flips == nina.meridian_flips
        IN /\ \A i \in 1..Len(flips) :
                 flips[i].from_pier_side # flips[i].to_pier_side
           /\ \A i \in 1..(Len(flips) - 1) :
                 flips[i + 1].from_pier_side = flips[i].to_pier_side
           /\ flips # <<>> => nina.current_pier_side = Last(flips).to_pier_side

\* mentions of East, West and East: two flips, East to West and back
C38_Witness ==
    /\ nina_calls = 1
    /\ nina_pc = "returned"
    /\ Len(nina.meridian_flips) = 2
    /\ nina.meridian_flips[1].from_pier_side = "East"
    /\ nina.meridian_flips[1].to_pier_side = "West"
    /\ nina.meridian_flips[2].to_pier_side = "East"

\* ---------------------------------------------------------------------------
\* Properties of repeated scans
\* ---------------------------------------------------------------------------

\* the finder as constructed, with the folders of f set
FreshFinder(f) ==
    [SessionFinder_init EXCEPT !.nina_folder = f.nina_folder,
                               !.phd2_folder = f.phd2_folder]

\* no file is listed twice in the returned sessions
ListedOnce(sessions) ==
    /\ \A i \in 1..Len(sessions) :
         /\ Cardinality(SeqToSet(sessions[i].nina_logs)) = Len(sessions[i].nina_logs)
         /\ Cardinality(SeqToSet(sessions[i].phd2_logs)) = Len(sessions[i].phd2_logs)
    /\ \A i, j \in 1..Len(sessions) :
         i # j =>
             /\ SeqToSet(sessions[i].nina_logs) \cap SeqToSet(sessions[j].nina_logs) = {}
             /\ SeqToSet(sessions[i].phd2_logs) \cap SeqToSet(sessions[j].phd2_logs) = {}

\* C39: scan rebuilds its result on every call. Whatever scans the finder
\* made before and whatever folders it had set then, a call of scan or of
\* get_matching_sessions returns what the same call returns on a finder just
\* constructed with the same folders on the same disk, lists no file twice,
\* and lists imaging logs of the imaging folder now set and guiding logs of
\* the guiding folder now set only.
C39_ScanRebuilds ==
    IsSome(scan_out) =>
        LET out == Val(scan_out)
            f == out.finder
        IN /\ out.sessions =
                  IF out.call = "scan"
                  THEN scan(FreshFinder(f), disk)
                  ELSE get_matching_sessions(FreshFinder(f), disk)
           /\ ListedOnce(out.sessions)
           /\ \A i \in 1..Len(out.sessions) :
                /\ \A file \in SeqToSet(out.sessions[i].nina_logs) :
                     f.nina_folder = Some(file.folder)
                /\ \A file \in SeqToSet(out.sessions[i].phd2_logs) :
                     f.phd2_folder = Some(file.folder)

\* a scan made after the imaging folder was set to another folder: the dict
\* of the scan before listed files of the folder no longer set, and the scan
\* returns the log of the new folder beside the guiding log
C39_Witness ==
    /\ IsSome(scan_out)
    /\ Val(scan_out).call = "scan"
    /\ Val(scan_out).stale = {"nina_logs"}
    /\ Val(scan_out).finder.nina_folder = Some("moved_logs")
    /\ \E i \in 1..Len(Val(scan_out).sessions) :
         Val(scan_out).sessions[i].nina_logs # <<>>
    /\ \E i \in 1..Len(Val(scan_out).sessions) :
         Val(scan_out).sessions[i].phd2_logs # <<>>

====
